---- MODULE Spec2Model ----
(***************************************************************************)
(* A state-machine model of the retrieval engine (app/core/rag) and of the *)
(* conversation orchestrator (app/core/graph/graph.py) of my-plants-AI.    *)
(*                                                                         *)
(* Every await that can suspend is the end of an action: the program runs  *)
(* on one asyncio event loop, so the code between two suspension points is *)
(* executed without interleaving.                                          *)
(***************************************************************************)
EXTENDS Integers, Sequences, FiniteSets, TLC

(***************************************************************************)
(* Bounds of the model.                                                    *)
(***************************************************************************)
MaxNodeId == 2
MaxRetrieved == 2
MaxTopN == 1
MaxRetriesSetting == 4
MaxLlmFailures == 4
MaxHistory == 2
MaxToolCalls == 3
MaxCallers == 2
MaxCalls == 3
MaxProduced == 2
MaxTokens == 3
MaxChunks == 2
MaxSources == 2
MaxRecords == 2

\* Python's None where the other values are strings.
None == "None"

\* An optional object: Nothing is None, Some(x) is the object x.
Nothing == <<>>

Some(x) == <<x>>

Get(opt) == opt[1]

VARIABLES
    RERANK_TOP_N,     \* settings.RERANK_TOP_N, read at RAGQueryEngine.__init__
    q_pc,             \* position of RagInterface.search / RAGQueryEngine.aquery
    vector_nodes,     \* aquery local: result of vector_retriever.aretrieve
    keyword_nodes,    \* aquery local: result of keyword_retriever.aretrieve
    kg_nodes,         \* aquery local: result of kg_retriever.aretrieve
    combined_nodes,   \* aquery local: list(unique_nodes.values())
    reranked_nodes,   \* aquery local: reranker output
    response,         \* aquery local / return value: the Response object
    q_raised,         \* where the exception that left search was raised, or None
    search_result,    \* the RAGResponse search returned, or None
    synth_calls,      \* number of calls of response_synthesizer.asynthesize
    MAX_LLM_CALL_RETRIES, \* settings.MAX_LLM_CALL_RETRIES
    chat_pc,          \* position of LangGraphAgent._chat
    state_messages,   \* _chat argument: state.messages
    messages,         \* _chat local: prepare_messages(...)
    attempt,          \* _chat local: the loop variable
    llm_calls_num,    \* _chat local
    llm_failures_left,\* the LLM: how many more calls fail before one succeeds
    llm_inputs,       \* the LLM: the argument of every ainvoke so far, in order
    generated_state,  \* _chat return value, or None
    tools_by_name,    \* self.tools_by_name; __init__ does not assign it
    tc_pc,            \* position of LangGraphAgent._tool_call
    tool_calls,       \* state.messages[-1].tool_calls
    tc_index,         \* _tool_call: the position of the loop in tool_calls
    outputs,          \* _tool_call local
    tc_result,        \* _tool_call return value, or None
    tc_raised,        \* the exception that left _tool_call, or None
    tool_log,         \* the tools: start and end of every invocation, in order
    ENVIRONMENT,      \* settings.ENVIRONMENT
    storage_up,       \* whether the checkpoint database can be reached
    _graph,           \* self._graph
    _connection_pool, \* self._connection_pool
    pools,            \* every AsyncConnectionPool created so far: the state of its open()
    workflows_built,  \* number of create_supervisor(...) calls
    graphs_compiled,  \* number of workflow.compile(...) calls
    calls_started,    \* number of calls of the agent's methods so far
    g_op,             \* per caller: the method it called
    g_pc,             \* per caller: its position in that method
    g_pool,           \* per caller: what _get_connection_pool returned to it
    g_result,         \* per caller: what create_graph returned to it
    g_used,           \* per caller: the graph object its turn runs on
    turn_state,       \* the workflow's position in a turn
    remaining_steps,  \* GraphState.remaining_steps
    pending_tool_calls, \* number of tool calls the last message of the turn carries
    _debug,           \* self._debug (settings.DEBUG at construction)
    h_pc,             \* position of get_response / get_chat_history
    h_op,             \* the method that was called, or None
    h_session,        \* its session_id argument
    h_debug,          \* the debug argument of get_chat_history
    h_input,          \* the messages argument of get_response
    h_resumed,        \* whether ainvoke started from the state the session's last turn left
    h_messages,       \* the message list handed to __process_messages, or None
    h_result,         \* the list the method returned, or None
    h_raised,         \* the exception that left the method, or None
    saved,            \* the checkpoint saver: per thread id, the persisted messages
    last_turn,        \* the session and the messages of the last completed turn
    rows,             \* the database: per checkpoint table, the thread ids that have rows
    rows_at_call,     \* rows when clear_chat_history was called
    cl_pc,            \* position of clear_chat_history
    cl_session,       \* its session_id argument
    cl_pool,          \* clear_chat_history local: conn_pool
    cl_table,         \* position of the loop in settings.CHECKPOINT_TABLES
    cl_deleted,       \* the tables whose DELETE has been executed, in order
    cl_failed_at,     \* the position of the table whose DELETE failed, or 0
    cl_raised,        \* the exception that left clear_chat_history, or None
    st_pc,            \* position of get_stream_response
    st_tokens,        \* the message chunks self._graph.astream produces, in order
    st_fail_at,       \* the position at which astream raises instead, or 0
    st_index,         \* how many chunks astream has handed to the loop
    st_yielded,       \* what the generator has yielded to its consumer, in order
    st_skipped,       \* the positions of the chunks the inner handler skipped
    st_raised,        \* the exception that left get_stream_response, or None
    ix_pc,            \* whether MultiIndexManager has been constructed in this process
    chroma,           \* the persistent Chroma collection behind vector_index: its nodes
    keyword_index,    \* self.keyword_index (in memory): its nodes
    kg_index,         \* self.kg_index (in memory): its nodes
    keyword_disk,     \* what is persisted at keyword_storage_path
    kg_disk,          \* what is persisted at kg_storage_path
    disk_before,      \* keyword_disk and kg_disk when the construction began
    generated_ids,    \* the doc ids add_document has generated so far
    a_pc,             \* outcome of the RagInterface.add_document call that has just ended
    a_doc_id,         \* the doc_id it generated
    a_file_path,      \* its file_path argument
    a_file,           \* what is at that path: whether it exists, how many documents load
    a_nodes,          \* the nodes process_document returned, in order
    a_fail_at,        \* the position of the insert that raised, or 0
    a_before,         \* the indices and the persisted states when it was called
    d_pc,             \* position of RagInterface.delete_document
    d_doc_id,         \* its doc_id argument
    d_before,         \* the vector and the keyword index when it was called
    d_result,         \* what it returned, or None
    deleted_ok,       \* the doc ids for which delete_document has returned True
    kb_pc,            \* position of KnowledgeBaseTool._arun
    kb_via,           \* the method the tool was entered through: _run or _arun
    kb_response,      \* _arun local: the RAGResponse search returned, or None
    kb_output,        \* the text the tool returned, or None
    pm_pc,            \* outcome of the __process_messages call that has just ended
    pm_caller,        \* the method that made the call
    pm_messages,      \* its messages argument
    pm_debug,         \* its debug argument
    pm_result,         \* the list it returned, or None
    documents,        \* the document table: the rows of the uploaded documents
    next_id,          \* the document table: the number of rows created so far
    upload_index_id,  \* for every row, the doc id add_document returned when it was created
    removed,          \* the ids of the rows the delete endpoint has removed
    add_calls,        \* the add_document calls of the uploads: doc id, file name, size
    up_pc,            \* outcome of the last upload_document request
    up_request,       \* its file name and size
    up_response,      \* the DocumentResponse it returned, or None
    up_before,        \* the indices and the table when it was received
    del_pc,           \* position of the last delete_document request
    del_record        \* the row it removed

settingsVars == <<RERANK_TOP_N, MAX_LLM_CALL_RETRIES, ENVIRONMENT, storage_up>>

queryVars == <<q_pc, vector_nodes, keyword_nodes, kg_nodes, combined_nodes,
               reranked_nodes, response, q_raised, search_result, synth_calls>>

chatVars == <<chat_pc, state_messages, messages, attempt, llm_calls_num,
              llm_failures_left, llm_inputs, generated_state>>

toolVars == <<tc_pc, tool_calls, tc_index, outputs, tc_result, tc_raised, tool_log>>

graphVars == <<_graph, _connection_pool, pools, workflows_built, graphs_compiled,
               calls_started, g_op, g_pc, g_pool, g_result, g_used>>

turnVars == <<turn_state, remaining_steps, pending_tool_calls>>

convVars == <<_debug, h_pc, h_op, h_session, h_debug, h_input, h_resumed, h_messages,
              h_result, h_raised, saved, last_turn>>

clearVars == <<rows, rows_at_call, cl_pc, cl_session, cl_pool, cl_table, cl_deleted,
               cl_failed_at, cl_raised>>

streamVars == <<st_pc, st_tokens, st_fail_at, st_index, st_yielded, st_skipped, st_raised>>

indexVars == <<ix_pc, chroma, keyword_index, kg_index, keyword_disk, kg_disk, disk_before,
               generated_ids, a_pc, a_doc_id, a_file_path, a_file, a_nodes, a_fail_at,
               a_before, d_pc, d_doc_id, d_before, d_result, deleted_ok>>

kbVars == <<kb_pc, kb_via, kb_response, kb_output>>

pmVars == <<pm_pc, pm_caller, pm_messages, pm_debug, pm_result>>

docsVars == <<documents, next_id, upload_index_id, removed, add_calls, up_pc, up_request, up_response,
              up_before, del_pc, del_record>>

vars == <<settingsVars, tools_by_name, queryVars, chatVars, toolVars, graphVars,
          turnVars, convVars, clearVars, streamVars, indexVars,
    kbVars,
    pmVars,
    docsVars>>

\* What an action of one component leaves alone.
notQuery == <<settingsVars, tools_by_name, chatVars, toolVars, graphVars, turnVars,
              convVars, clearVars, streamVars, indexVars,
    kbVars,
    pmVars,
    docsVars>>
notChat == <<settingsVars, tools_by_name, queryVars, toolVars, graphVars, turnVars,
             convVars, clearVars, streamVars, indexVars,
    kbVars,
    pmVars,
    docsVars>>
notTool == <<settingsVars, tools_by_name, queryVars, chatVars, graphVars, turnVars,
             convVars, clearVars, streamVars, indexVars,
    kbVars,
    pmVars,
    docsVars>>
notGraph == <<settingsVars, tools_by_name, queryVars, chatVars, toolVars, turnVars,
              convVars, clearVars, streamVars, indexVars,
    kbVars,
    pmVars,
    docsVars>>
notTurn == <<settingsVars, tools_by_name, queryVars, chatVars, toolVars, graphVars,
             convVars, clearVars, streamVars, indexVars,
    kbVars,
    pmVars,
    docsVars>>

\* The conversation methods build the graph when there is none (graphVars).
notConv == <<settingsVars, tools_by_name, queryVars, chatVars, toolVars, turnVars,
             clearVars, streamVars, indexVars,
    kbVars,
    pmVars,
    docsVars>>

\* clear_chat_history creates the connection pool when there is none (graphVars).
notClear == <<settingsVars, tools_by_name, queryVars, chatVars, toolVars, turnVars,
              convVars, streamVars, indexVars,
    kbVars,
    pmVars,
    docsVars>>

\* get_stream_response builds the graph when there is none (graphVars).
notStream == <<settingsVars, tools_by_name, queryVars, chatVars, toolVars, turnVars,
               convVars, clearVars, indexVars,
    kbVars,
    pmVars,
    docsVars>>

notIndex == <<settingsVars, tools_by_name, queryVars, chatVars, toolVars, graphVars,
              turnVars, convVars, clearVars, streamVars,
    kbVars,
    pmVars,
    docsVars>>

notKb == <<settingsVars, tools_by_name, queryVars, chatVars, toolVars, graphVars,
           turnVars, convVars, clearVars, streamVars, indexVars,
    pmVars,
    docsVars>>

notPm == <<settingsVars, tools_by_name, queryVars, chatVars, toolVars, graphVars,
           turnVars, convVars, clearVars, streamVars, indexVars, kbVars,
    docsVars>>

\* The document endpoints work on the document table and, through
\* RagInterface, on the indices.
notDocs == <<settingsVars, tools_by_name, queryVars, chatVars, toolVars, graphVars,
             turnVars, convVars, clearVars, streamVars, kbVars, pmVars>>

(***************************************************************************)
(* Pure helpers.                                                           *)
(***************************************************************************)
Range(s) == {s[i] : i \in 1..Len(s)}

Min2(a, b) == IF a < b THEN a ELSE b

\* All sequences over S of length at most n.
SeqsUpTo(S, n) == UNION {[1..k -> S] : k \in 0..n}

\* All sequences that list every element of the finite set S exactly once.
Orderings(S) ==
    {s \in [1..Cardinality(S) -> S] : \A i, j \in 1..Cardinality(S) : s[i] = s[j] => i = j}

(***************************************************************************)
(* Nodes.  A retriever hands back NodeWithScore objects; two objects with  *)
(* the same id_ that come from different retrievers are different objects, *)
(* which the field via records.                                            *)
(***************************************************************************)
NodeIds == 1..MaxNodeId

Retrievers == {"vector", "keyword", "kg"}

\* metadata['file_name'] of the node with this id (nodes 1 and 2 are chunks
\* of the same file, every other node of a second one).
FileNameOf(id) == IF id <= 2 THEN "tomatoes_fert_plan.txt" ELSE "roses.txt"

NodeWithScore(id, via) == [id |-> id, via |-> via, file_name |-> FileNameOf(id)]

\* What one retriever may return for a query: up to MaxRetrieved nodes.
RetrieverResults(via) ==
    {[i \in 1..Len(ids) |-> NodeWithScore(ids[i], via)] : ids \in SeqsUpTo(NodeIds, MaxRetrieved)}

(***************************************************************************)
(* unique_nodes = {node.id_: node for node in all_nodes}                   *)
(* A Python dict keeps a key at the position of its first insertion, and a *)
(* later assignment to the same key replaces the value.  The dict is       *)
(* modelled as the sequence of its (key, value) items in iteration order.  *)
(***************************************************************************)
DictHasKey(d, k) == \E i \in 1..Len(d) : d[i].key = k

\* setdefault: an existing key keeps its value.
DictSetItemKeepFirst(d, k, v) ==
    IF DictHasKey(d, k) THEN d ELSE Append(d, [key |-> k, value |-> v])

\* d[k] = v
DictSetItem(d, k, v) ==
    IF DictHasKey(d, k)
    THEN [i \in 1..Len(d) |-> IF d[i].key = k THEN [key |-> k, value |-> v] ELSE d[i]]
    ELSE Append(d, [key |-> k, value |-> v])

RECURSIVE UniqueNodesFrom(_, _)
UniqueNodesFrom(d, nodes) ==
    IF nodes = <<>> THEN d
    ELSE UniqueNodesFrom(DictSetItem(d, Head(nodes).id, Head(nodes)), Tail(nodes))

UniqueNodes(all_nodes) == UniqueNodesFrom(<<>>, all_nodes)

DictValues(d) == [i \in 1..Len(d) |-> d[i].value]

AllNodes == vector_nodes \o keyword_nodes \o kg_nodes

(***************************************************************************)
(* The Response object of the query engine.  metadata is None unless the   *)
(* constructor is given one: Response(response=...) at query_engine.py:78  *)
(* passes none.                                                            *)
(***************************************************************************)
CANNED_ANSWER == "Could not retrieve any information."

Response(text, source_nodes, metadata) ==
    [response |-> text, source_nodes |-> source_nodes, metadata |-> metadata]

\* A metadata dict: only its 'sources' entry is modelled (Nothing: no entry).
MetadataDict(sources) == [is_dict |-> TRUE, sources |-> sources]

\* metadata = None
NoMetadata == [is_dict |-> FALSE, sources |-> Nothing]

\* str(response)
ResponseStr(r) == r.response

\* response.metadata.get("sources", [])
MetadataGetSources(m) == IF m.sources = Nothing THEN <<>> ELSE Get(m.sources)

(***************************************************************************)
(* RagInterface.search -> RAGQueryEngine.aquery                            *)
(***************************************************************************)
InitQuery ==
    /\ q_pc = "idle"
    /\ vector_nodes = <<>>
    /\ keyword_nodes = <<>>
    /\ kg_nodes = <<>>
    /\ combined_nodes = <<>>
    /\ reranked_nodes = <<>>
    /\ response = Nothing
    /\ q_raised = None
    /\ search_result = Nothing
    /\ synth_calls = 0

\* An exception leaves aquery and, search having no handler, search as well.
QueryRaise(where) ==
    /\ q_pc' = "raised"
    /\ q_raised' = where

\* search(query) is called: aquery runs up to the first await.
SearchCall ==
    /\ q_pc = "idle"
    /\ q_pc' = "vector"
    /\ UNCHANGED <<vector_nodes, keyword_nodes, kg_nodes, combined_nodes, reranked_nodes,
                   response, q_raised, search_result, synth_calls>>
    /\ UNCHANGED notQuery

\* vector_nodes = await self.vector_retriever.aretrieve(query_bundle)
VectorRetrieve ==
    /\ q_pc = "vector"
    /\ \/ /\ \E r \in RetrieverResults("vector") : vector_nodes' = r
          /\ q_pc' = "keyword"
          /\ UNCHANGED q_raised
       \/ /\ QueryRaise("vector")
          /\ UNCHANGED vector_nodes
    /\ UNCHANGED <<keyword_nodes, kg_nodes, combined_nodes, reranked_nodes,
                   response, search_result, synth_calls>>
    /\ UNCHANGED notQuery

\* keyword_nodes = await self.keyword_retriever.aretrieve(query_bundle)
KeywordRetrieve ==
    /\ q_pc = "keyword"
    /\ \/ /\ \E r \in RetrieverResults("keyword") : keyword_nodes' = r
          /\ q_pc' = "kg"
          /\ UNCHANGED q_raised
       \/ /\ QueryRaise("keyword")
          /\ UNCHANGED keyword_nodes
    /\ UNCHANGED <<vector_nodes, kg_nodes, combined_nodes, reranked_nodes,
                   response, search_result, synth_calls>>
    /\ UNCHANGED notQuery

\* kg_nodes = await self.kg_retriever.aretrieve(query_bundle)
KgRetrieve ==
    /\ q_pc = "kg"
    /\ \/ /\ \E r \in RetrieverResults("kg") : kg_nodes' = r
          /\ q_pc' = "fuse"
          /\ UNCHANGED q_raised
       \/ /\ QueryRaise("kg")
          /\ UNCHANGED kg_nodes
    /\ UNCHANGED <<vector_nodes, keyword_nodes, combined_nodes, reranked_nodes,
                   response, search_result, synth_calls>>
    /\ UNCHANGED notQuery

\* all_nodes, unique_nodes, combined_nodes and the empty short-circuit.
Fuse ==
    /\ q_pc = "fuse"
    /\ combined_nodes' = DictValues(UniqueNodes(AllNodes))
    /\ IF combined_nodes' = <<>>
       THEN /\ response' = Some(Response(CANNED_ANSWER, <<>>, NoMetadata))
            /\ q_pc' = "wrap"
       ELSE /\ q_pc' = "rerank"
            /\ UNCHANGED response
    /\ UNCHANGED <<vector_nodes, keyword_nodes, kg_nodes, reranked_nodes,
                   q_raised, search_result, synth_calls>>
    /\ UNCHANGED notQuery

\* What the reranker may return: the top_n best of the nodes, best first.
\* The scores are the cross-encoder's, so any order is possible.
RerankResults(nodes, top_n) ==
    {SubSeq(o, 1, Min2(top_n, Len(o))) : o \in Orderings(Range(nodes))}

\* reranked_nodes = self.reranker.postprocess_nodes(combined_nodes, ...)
Rerank ==
    /\ q_pc = "rerank"
    /\ \/ /\ \E r \in RerankResults(combined_nodes, RERANK_TOP_N) : reranked_nodes' = r
          /\ q_pc' = "log"
          /\ UNCHANGED q_raised
       \/ /\ QueryRaise("rerank")
          /\ UNCHANGED reranked_nodes
    /\ UNCHANGED <<vector_nodes, keyword_nodes, kg_nodes, combined_nodes,
                   response, search_result, synth_calls>>
    /\ UNCHANGED notQuery

\* " ".join(node.score for node in reranked_nodes): str.join raises TypeError
\* on the first item that is not a str, and node.score is a float.
JoinScoresRaises(nodes) == nodes # <<>>

\* logger.debug("rag_query_nodes_after_rerank", ..., nodes_scores=" ".join(...))
LogReranked ==
    /\ q_pc = "log"
    /\ IF JoinScoresRaises(reranked_nodes)
       THEN QueryRaise("log")
       ELSE /\ q_pc' = "synth"
            /\ UNCHANGED q_raised
    /\ UNCHANGED <<vector_nodes, keyword_nodes, kg_nodes, combined_nodes, reranked_nodes,
                   response, search_result, synth_calls>>
    /\ UNCHANGED notQuery

\* response = await self.response_synthesizer.asynthesize(query, nodes)
\* The synthesizer answers from the nodes it is given, which become the
\* response's source_nodes; without nodes it answers without metadata.
Synthesize ==
    /\ q_pc = "synth"
    /\ synth_calls' = synth_calls + 1
    /\ \/ /\ response' = IF reranked_nodes = <<>>
                         THEN Some(Response("Empty Response", <<>>, NoMetadata))
                         ELSE Some(Response("synthesized", reranked_nodes, MetadataDict(Nothing)))
          /\ q_pc' = "sources"
          /\ UNCHANGED q_raised
       \/ /\ QueryRaise("synth")
          /\ UNCHANGED response
    /\ UNCHANGED <<vector_nodes, keyword_nodes, kg_nodes, combined_nodes, reranked_nodes,
                   search_result>>
    /\ UNCHANGED notQuery

\* list(set([node.metadata.get('file_name', 'N/A') for node in source_nodes]))
SourceFiles(source_nodes) == Orderings({n.file_name : n \in Range(source_nodes)})

\* if response.source_nodes: response.metadata['sources'] = source_files
AddSources ==
    /\ q_pc = "sources"
    /\ IF Get(response).source_nodes # <<>>
       THEN \E files \in SourceFiles(Get(response).source_nodes) :
                response' = Some([Get(response) EXCEPT !.metadata = MetadataDict(Some(files))])
       ELSE UNCHANGED response
    /\ q_pc' = "wrap"
    /\ UNCHANGED <<vector_nodes, keyword_nodes, kg_nodes, combined_nodes, reranked_nodes,
                   q_raised, search_result, synth_calls>>
    /\ UNCHANGED notQuery

\* RAGResponse(answer=str(response), sources=response.metadata.get("sources", []))
\* None has no attribute get: AttributeError.
SearchReturn ==
    /\ q_pc = "wrap"
    /\ IF Get(response).metadata.is_dict
       THEN /\ search_result' = Some([answer |-> ResponseStr(Get(response)),
                                      sources |-> MetadataGetSources(Get(response).metadata)])
            /\ q_pc' = "returned"
            /\ UNCHANGED q_raised
       ELSE /\ QueryRaise("search")
            /\ UNCHANGED search_result
    /\ UNCHANGED <<vector_nodes, keyword_nodes, kg_nodes, combined_nodes, reranked_nodes,
                   response, synth_calls>>
    /\ UNCHANGED notQuery

NextQuery ==
    \/ SearchCall
    \/ VectorRetrieve
    \/ KeywordRetrieve
    \/ KgRetrieve
    \/ Fuse
    \/ Rerank
    \/ LogReranked
    \/ Synthesize
    \/ AddSources
    \/ SearchReturn

(***************************************************************************)
(* LangGraphAgent._chat                                                    *)
(***************************************************************************)
Roles == {"user", "assistant"}

\* The conversation histories a turn may start from.
Histories == {h \in SeqsUpTo(Roles, MaxHistory) : h # <<>>}

SYSTEM_PROMPT == "system"

\* prepare_messages(state.messages, self.llm, SYSTEM_PROMPT): the system
\* prompt followed by the history (the history fits the context window).
PrepareMessages(msgs) == <<SYSTEM_PROMPT>> \o msgs

\* dump_messages(messages): one dict per message, same order.
DumpMessages(msgs) == msgs

\* for attempt in range(max_retries): is there an iteration for this value?
InRangeOffByOne(a, max_retries) == a < max_retries - 1

InRange(a, max_retries) == a < max_retries

\* The message the LLM generates for a prompt.
AIMessage(prompt) == [role |-> "assistant", content |-> "generated", in_reply_to |-> prompt]

InitChat ==
    /\ chat_pc = "idle"
    /\ state_messages = <<>>
    /\ messages = <<>>
    /\ attempt = 0
    /\ llm_calls_num = 0
    /\ llm_failures_left = 0
    /\ llm_inputs = <<>>
    /\ generated_state = Nothing

\* _chat(state) is called with an LLM that fails f times before it succeeds;
\* it runs up to the first await, or raises when the loop has no iteration.
ChatCall ==
    /\ chat_pc = "idle"
    /\ \E h \in Histories, f \in 0..MaxLlmFailures :
          /\ state_messages' = h
          /\ messages' = PrepareMessages(h)
          /\ llm_failures_left' = f
    /\ attempt' = 0
    /\ llm_calls_num' = 0
    /\ chat_pc' = IF InRange(0, MAX_LLM_CALL_RETRIES) THEN "ainvoke" ELSE "raised"
    /\ UNCHANGED <<llm_inputs, generated_state>>
    /\ UNCHANGED notChat

\* await self.llm.ainvoke(dump_messages(messages)) returns: return generated_state
LlmSucceeds ==
    /\ chat_pc = "ainvoke"
    /\ llm_failures_left = 0
    /\ llm_inputs' = Append(llm_inputs, DumpMessages(messages))
    /\ generated_state' = Some([messages |-> <<AIMessage(DumpMessages(messages))>>])
    /\ chat_pc' = "returned"
    /\ UNCHANGED <<state_messages, messages, attempt, llm_calls_num, llm_failures_left>>
    /\ UNCHANGED notChat

\* await self.llm.ainvoke(...) raises: log, llm_calls_num += 1, continue; after
\* the last iteration, raise Exception("Failed to get a response ...").
LlmFails ==
    /\ chat_pc = "ainvoke"
    /\ llm_failures_left > 0
    /\ llm_inputs' = Append(llm_inputs, DumpMessages(messages))
    /\ llm_failures_left' = llm_failures_left - 1
    /\ llm_calls_num' = llm_calls_num + 1
    /\ attempt' = attempt + 1
    /\ chat_pc' = IF InRange(attempt + 1, MAX_LLM_CALL_RETRIES) THEN "ainvoke" ELSE "raised"
    /\ UNCHANGED <<state_messages, messages, generated_state>>
    /\ UNCHANGED notChat

NextChat ==
    \/ ChatCall
    \/ LlmSucceeds
    \/ LlmFails

(***************************************************************************)
(* LangGraphAgent._tool_call                                               *)
(***************************************************************************)
\* The names of the tools of the plant expert agent (two of them).
ToolNames == {"npk_calculator_tool", "search_knowledge_base"}

\* The names a tool call may carry: the LLM can name a tool that does not exist.
CallNames == ToolNames \cup {"no_such_tool"}

CallIds == {100 + k : k \in 1..MaxToolCalls}

\* The tool_calls of a last assistant message: ids are unique.
ToolCallLists ==
    {c \in SeqsUpTo([name : CallNames, id : CallIds], MaxToolCalls) :
        \A i, j \in 1..Len(c) : c[i].id = c[j].id => i = j}

\* The instance has no attribute tools_by_name.
NoAttribute == {"<no attribute>"}

ToolMessage(content, name, tool_call_id) ==
    [role |-> "tool", content |-> content, name |-> name, tool_call_id |-> tool_call_id]

\* self.tools_by_name[tool_call["name"]] for the call at position i, if any:
\* what the loop does next.
LookupTool(calls, i) ==
    IF i > Len(calls) THEN "return"
    ELSE IF tools_by_name = NoAttribute THEN "AttributeError"
    ELSE IF calls[i].name \notin tools_by_name THEN "KeyError"
    ELSE "ainvoke"

InitTool ==
    /\ tc_pc = "idle"
    /\ tool_calls = <<>>
    /\ tc_index = 0
    /\ outputs = <<>>
    /\ tc_result = Nothing
    /\ tc_raised = None
    /\ tool_log = <<>>

\* The loop reaches position i with the messages outs (the tools' log being
\* log): it returns after the last call, raises if the lookup fails, and else
\* starts the tool and awaits it.
ToolLoop(calls, i, outs, log) ==
    /\ tc_index' = i
    /\ outputs' = outs
    /\ LET next == LookupTool(calls, i) IN
       /\ tc_pc' = CASE next = "return" -> "returned"
                     [] next = "ainvoke" -> "ainvoke"
                     [] OTHER -> "raised"
       /\ tc_raised' = IF next \in {"return", "ainvoke"} THEN None ELSE next
       /\ tc_result' = IF next = "return" THEN Some([messages |-> outs]) ELSE Nothing
       /\ tool_log' = IF next = "ainvoke"
                      THEN Append(log, [event |-> "start", id |-> calls[i].id])
                      ELSE log

\* _tool_call(state) is called: it runs up to the first await.
ToolCallEnter ==
    /\ tc_pc = "idle"
    /\ \E c \in ToolCallLists :
          /\ tool_calls' = c
          /\ ToolLoop(c, 1, <<>>, tool_log)
    /\ UNCHANGED notTool

\* await ....ainvoke(tool_call["args"], config=config) returns: append the
\* ToolMessage and go on with the next call.
ToolReturns ==
    /\ tc_pc = "ainvoke"
    /\ LET call == tool_calls[tc_index] IN
       ToolLoop(tool_calls, tc_index + 1,
                Append(outputs, ToolMessage("result", call.name, call.id)),
                Append(tool_log, [event |-> "end", id |-> call.id]))
    /\ UNCHANGED tool_calls
    /\ UNCHANGED notTool

\* await ....ainvoke(...) raises: nothing in _tool_call catches it.
ToolRaises ==
    /\ tc_pc = "ainvoke"
    /\ tc_pc' = "raised"
    /\ tc_raised' = "ToolException"
    /\ tool_log' = Append(tool_log, [event |-> "error", id |-> tool_calls[tc_index].id])
    /\ UNCHANGED <<tool_calls, tc_index, outputs, tc_result>>
    /\ UNCHANGED notTool

NextTool ==
    \/ ToolCallEnter
    \/ ToolReturns
    \/ ToolRaises

(***************************************************************************)
(* Lazy construction of the connection pool and of the compiled graph:     *)
(* _get_connection_pool, create_graph and the methods that call them.      *)
(* Callers are coroutines on one event loop: a caller runs from one await  *)
(* that suspends (pool.open(), checkpointer.setup(), graph.ainvoke()) to   *)
(* the next without interleaving.                                          *)
(***************************************************************************)
Environments == {"development", "test", "production"}

Callers == 1..MaxCallers

\* get_response, get_stream_response and get_chat_history start alike:
\* if self._graph is None: self._graph = await self.create_graph()
TurnOps == {"get_response", "get_stream_response", "get_chat_history"}

GraphOps == TurnOps \cup {"create_graph", "_get_connection_pool"}

\* workflow.compile(checkpointer=None, ...): the k-th compiled graph. It never
\* carries the checkpointer.
CompiledGraph(k) == [id |-> k, checkpointer |-> None]

\* The pool a caller was handed, and whether its open() had completed then.
Handed(pool_id) == [id |-> pool_id, open_state |-> pools[pool_id]]

InitGraph ==
    /\ _graph = Nothing
    /\ _connection_pool = Nothing
    /\ pools = <<>>
    /\ workflows_built = 0
    /\ graphs_compiled = 0
    /\ calls_started = 0
    /\ g_op = [c \in Callers |-> None]
    /\ g_pc = [c \in Callers |-> "idle"]
    /\ g_pool = [c \in Callers |-> Nothing]
    /\ g_result = [c \in Callers |-> Nothing]
    /\ g_used = [c \in Callers |-> Nothing]

\* A method is called by caller c.
BeginCall(c, op) ==
    /\ g_pc[c] = "idle"
    /\ calls_started < MaxCalls
    /\ calls_started' = calls_started + 1
    /\ g_op' = [g_op EXCEPT ![c] = op]

\* if self._graph is None: false. The turn runs on the cached graph.
CallUsesCachedGraph(c) ==
    /\ \E op \in TurnOps : BeginCall(c, op)
    /\ _graph # Nothing
    /\ g_used' = [g_used EXCEPT ![c] = _graph]
    /\ g_pc' = [g_pc EXCEPT ![c] = "ainvoke"]
    /\ UNCHANGED <<_graph, _connection_pool, pools, workflows_built, graphs_compiled,
                   g_pool, g_result>>
    /\ UNCHANGED notGraph

\* create_graph() called while self._graph is set: return self._graph.
CreateGraphCached(c) ==
    /\ BeginCall(c, "create_graph")
    /\ _graph # Nothing
    /\ g_result' = [g_result EXCEPT ![c] = _graph]
    /\ g_pc' = [g_pc EXCEPT ![c] = "done"]
    /\ UNCHANGED <<_graph, _connection_pool, pools, workflows_built, graphs_compiled,
                   g_pool, g_used>>
    /\ UNCHANGED notGraph

\* self._graph is None: create_supervisor(...), then _get_connection_pool()
\* finds no pool, creates and assigns one, and awaits its open().
CreateGraphNewPool(c) ==
    /\ \E op \in TurnOps \cup {"create_graph"} : BeginCall(c, op)
    /\ _graph = Nothing
    /\ _connection_pool = Nothing
    /\ workflows_built' = workflows_built + 1
    /\ pools' = Append(pools, "opening")
    /\ _connection_pool' = Some(Len(pools) + 1)
    /\ g_pc' = [g_pc EXCEPT ![c] = "open"]
    /\ UNCHANGED <<_graph, graphs_compiled, g_pool, g_result, g_used>>
    /\ UNCHANGED notGraph

\* self._graph is None: create_supervisor(...), then _get_connection_pool()
\* returns the pool already assigned; AsyncPostgresSaver(pool), await setup().
CreateGraphCachedPool(c) ==
    /\ \E op \in TurnOps \cup {"create_graph"} : BeginCall(c, op)
    /\ _graph = Nothing
    /\ _connection_pool # Nothing
    /\ workflows_built' = workflows_built + 1
    /\ g_pool' = [g_pool EXCEPT ![c] = Some(Handed(Get(_connection_pool)))]
    /\ g_pc' = [g_pc EXCEPT ![c] = "setup"]
    /\ UNCHANGED <<_graph, _connection_pool, pools, graphs_compiled, g_result, g_used>>
    /\ UNCHANGED notGraph

\* _get_connection_pool() called directly (clear_chat_history does), no pool
\* assigned: create and assign one, await its open().
GetPoolNew(c) ==
    /\ BeginCall(c, "_get_connection_pool")
    /\ _connection_pool = Nothing
    /\ pools' = Append(pools, "opening")
    /\ _connection_pool' = Some(Len(pools) + 1)
    /\ g_pc' = [g_pc EXCEPT ![c] = "open"]
    /\ UNCHANGED <<_graph, workflows_built, graphs_compiled, g_pool, g_result, g_used>>
    /\ UNCHANGED notGraph

\* _get_connection_pool() called directly, a pool is assigned: return it.
GetPoolCached(c) ==
    /\ BeginCall(c, "_get_connection_pool")
    /\ _connection_pool # Nothing
    /\ g_pool' = [g_pool EXCEPT ![c] = Some(Handed(Get(_connection_pool)))]
    /\ g_pc' = [g_pc EXCEPT ![c] = "done"]
    /\ UNCHANGED <<_graph, _connection_pool, pools, workflows_built, graphs_compiled,
                   g_result, g_used>>
    /\ UNCHANGED notGraph

\* create_graph has ended for caller c with `value` (the graph, or None). For
\* create_graph called directly that is its result; in a TurnOp the caller
\* assigns it to self._graph and calls a method of self._graph: ainvoke,
\* astream or get_state, which is an AttributeError on None.
CreateGraphEnds(c, value) ==
    IF g_op[c] = "create_graph"
    THEN /\ g_result' = [g_result EXCEPT ![c] = value]
         /\ g_pc' = [g_pc EXCEPT ![c] = "done"]
         /\ UNCHANGED g_used
    ELSE /\ g_result' = [g_result EXCEPT ![c] = value]
         /\ g_used' = [g_used EXCEPT ![c] = value]
         /\ g_pc' = [g_pc EXCEPT ![c] = IF value = Nothing THEN "raised" ELSE "ainvoke"]

\* self._graph after create_graph ended with `value` for caller c: a TurnOp
\* assigns the value returned to it, None included.
GraphAfter(c, value, compiled) ==
    IF g_op[c] = "create_graph"
    THEN (IF compiled THEN value ELSE _graph)
    ELSE value

\* self._graph = workflow.compile(checkpointer=None, ...); return self._graph
CompileAndReturn(c) ==
    /\ graphs_compiled' = graphs_compiled + 1
    /\ _graph' = GraphAfter(c, Some(CompiledGraph(graphs_compiled + 1)), TRUE)
    /\ CreateGraphEnds(c, Some(CompiledGraph(graphs_compiled + 1)))

\* except Exception in create_graph: return None in production, else raise.
CreateGraphFails(c) ==
    /\ UNCHANGED graphs_compiled
    /\ IF ENVIRONMENT = "production"
       THEN /\ _graph' = GraphAfter(c, Nothing, FALSE)
            /\ CreateGraphEnds(c, Nothing)
       ELSE /\ g_pc' = [g_pc EXCEPT ![c] = "raised"]
            /\ UNCHANGED <<_graph, g_result, g_used>>

\* await self._connection_pool.open() returns. With the database down it may
\* still return: the connections are then made, and fail, later.
OpenReturns(c) ==
    /\ g_pc[c] = "open"
    /\ pools' = [pools EXCEPT ![Get(_connection_pool)] = "open"]
    /\ g_pool' = [g_pool EXCEPT ![c] = Some([id |-> Get(_connection_pool), open_state |-> "open"])]
    /\ g_pc' = [g_pc EXCEPT ![c] = IF g_op[c] = "_get_connection_pool" THEN "done" ELSE "setup"]
    /\ UNCHANGED <<_graph, _connection_pool, workflows_built, graphs_compiled,
                   calls_started, g_op, g_result, g_used>>
    /\ UNCHANGED notGraph

\* await self._connection_pool.open() raises: _get_connection_pool returns
\* None in production and raises elsewhere; self._connection_pool stays assigned.
\* In production create_graph goes on without a checkpointer and compiles.
OpenRaises(c) ==
    /\ g_pc[c] = "open"
    /\ ~storage_up
    /\ pools' = [pools EXCEPT ![Get(_connection_pool)] = "failed"]
    /\ IF g_op[c] = "_get_connection_pool"
       THEN /\ g_pc' = [g_pc EXCEPT ![c] = IF ENVIRONMENT = "production" THEN "done" ELSE "raised"]
            /\ UNCHANGED <<_graph, graphs_compiled, g_result, g_used>>
       ELSE IF ENVIRONMENT = "production"
            THEN CompileAndReturn(c)
            ELSE CreateGraphFails(c)
    /\ UNCHANGED <<_connection_pool, workflows_built, calls_started, g_op, g_pool>>
    /\ UNCHANGED notGraph

\* Whether checkpointer.setup() can succeed on the pool the caller holds: the
\* database must be up; if the pool's open() has completed it does succeed.
SetupMayReturn(c) == storage_up

SetupMayRaise(c) == ~storage_up \/ pools[Get(g_pool[c]).id] # "open"

\* await checkpointer.setup() returns: compile.
SetupReturns(c) ==
    /\ g_pc[c] = "setup"
    /\ SetupMayReturn(c)
    /\ CompileAndReturn(c)
    /\ UNCHANGED <<_connection_pool, pools, workflows_built, calls_started, g_op, g_pool>>
    /\ UNCHANGED notGraph

\* await checkpointer.setup() raises.
SetupRaises(c) ==
    /\ g_pc[c] = "setup"
    /\ SetupMayRaise(c)
    /\ CreateGraphFails(c)
    /\ UNCHANGED <<_connection_pool, pools, workflows_built, calls_started, g_op, g_pool>>
    /\ UNCHANGED notGraph

\* await self._graph.ainvoke(...) (astream, get_state) completes: the turn is answered.
TurnCompletes(c) ==
    /\ g_pc[c] = "ainvoke"
    /\ g_pc' = [g_pc EXCEPT ![c] = "done"]
    /\ UNCHANGED <<_graph, _connection_pool, pools, workflows_built, graphs_compiled,
                   calls_started, g_op, g_pool, g_result, g_used>>
    /\ UNCHANGED notGraph

\* The call has ended (returned or raised); the caller may call again.
CallEnds(c) ==
    /\ g_pc[c] \in {"done", "raised"}
    /\ g_pc' = [g_pc EXCEPT ![c] = "idle"]
    /\ g_op' = [g_op EXCEPT ![c] = None]
    /\ g_pool' = [g_pool EXCEPT ![c] = Nothing]
    /\ g_result' = [g_result EXCEPT ![c] = Nothing]
    /\ g_used' = [g_used EXCEPT ![c] = Nothing]
    /\ UNCHANGED <<_graph, _connection_pool, pools, workflows_built, graphs_compiled,
                   calls_started>>
    /\ UNCHANGED notGraph

NextGraph ==
    \/ \E c \in Callers : CallUsesCachedGraph(c)
    \/ \E c \in Callers : CreateGraphCached(c)
    \/ \E c \in Callers : CreateGraphNewPool(c)
    \/ \E c \in Callers : CreateGraphCachedPool(c)
    \/ \E c \in Callers : GetPoolNew(c)
    \/ \E c \in Callers : GetPoolCached(c)
    \/ \E c \in Callers : OpenReturns(c)
    \/ \E c \in Callers : OpenRaises(c)
    \/ \E c \in Callers : SetupReturns(c)
    \/ \E c \in Callers : SetupRaises(c)
    \/ \E c \in Callers : TurnCompletes(c)
    \/ \E c \in Callers : CallEnds(c)

(***************************************************************************)
(* One turn of the compiled workflow.  The repository builds the workflow  *)
(* with create_supervisor and create_react_agent (graph.py:234-247,        *)
(* agents.py:20-25) and declares the step budget (schemas/graph.py:20);    *)
(* the loop itself runs inside those libraries and is modelled here as the *)
(* specification describes it: ROUTE, SPECIALIST_ACT, TOOL_EXEC, DONE.     *)
(***************************************************************************)
\* remaining_steps: RemainingSteps = 25
RemainingStepsDefault == 25

TurnStates == {"IDLE", "ROUTE", "SPECIALIST_ACT", "TOOL_EXEC", "DONE"}

\* The step budget after one more hop.
StepsNotDecremented(r) == r

StepsAfterHop(r) == r - 1

\* A hop to `target` with a last message carrying k tool calls: the budget
\* decrements, and a budget of zero forces the terminal state.
Hop(target, k) ==
    /\ remaining_steps' = StepsAfterHop(remaining_steps)
    /\ IF remaining_steps' = 0
       THEN /\ turn_state' = "DONE"
            /\ pending_tool_calls' = 0
       ELSE /\ turn_state' = target
            /\ pending_tool_calls' = k

InitTurn ==
    /\ turn_state = "IDLE"
    /\ remaining_steps = RemainingStepsDefault
    /\ pending_tool_calls = 0

\* A user message starts a turn at the supervising controller.
TurnStart ==
    /\ turn_state = "IDLE"
    /\ turn_state' = "ROUTE"
    /\ remaining_steps' = RemainingStepsDefault
    /\ pending_tool_calls' = 0
    /\ UNCHANGED notTurn

\* ROUTE: the controller answers directly (a message without tool calls).
RouteResponds ==
    /\ turn_state = "ROUTE"
    /\ Hop("DONE", 0)
    /\ UNCHANGED notTurn

\* ROUTE: the controller delegates to the specialist agent.
RouteDelegates ==
    /\ turn_state = "ROUTE"
    /\ Hop("SPECIALIST_ACT", 0)
    /\ UNCHANGED notTurn

\* SPECIALIST_ACT: the specialist's message carries tool calls.
SpecialistRequestsTools ==
    /\ turn_state = "SPECIALIST_ACT"
    /\ \E k \in 1..MaxToolCalls : Hop("TOOL_EXEC", k)
    /\ UNCHANGED notTurn

\* SPECIALIST_ACT: the specialist's message carries no tool call.
SpecialistAnswers ==
    /\ turn_state = "SPECIALIST_ACT"
    /\ Hop("DONE", 0)
    /\ UNCHANGED notTurn

\* TOOL_EXEC: all pending tool calls are executed, their results appended,
\* and the workflow goes back to the specialist or to the controller.
ToolExec ==
    /\ turn_state = "TOOL_EXEC"
    /\ \E target \in {"SPECIALIST_ACT", "ROUTE"} : Hop(target, 0)
    /\ UNCHANGED notTurn

NextTurn ==
    \/ TurnStart
    \/ RouteResponds
    \/ RouteDelegates
    \/ SpecialistRequestsTools
    \/ SpecialistAnswers
    \/ ToolExec

(***************************************************************************)
(* get_response, get_chat_history and __process_messages.                  *)
(* A workflow message is a langchain message: its type and its content.    *)
(***************************************************************************)
Sessions == {"s1", "s2"}

MessageTypes == {"human", "ai", "tool", "system"}

HARMFUL == "<script>x</script>"

Contents == {"", "text", HARMFUL}

WorkflowMessage(type, content) == [type |-> type, content |-> content]

\* The messages a turn of the workflow may append: the controller's and the
\* specialist's messages (content may be empty when they carry tool calls),
\* tool results, and the handoff scaffolding.
ProducedMessages ==
    {WorkflowMessage("ai", c) : c \in Contents}
        \cup {WorkflowMessage("tool", "text"), WorkflowMessage("system", "text")}

ProducedLists == SeqsUpTo(ProducedMessages, MaxProduced)

\* The messages argument of get_response: validated Message objects.
InputLists == { <<[role |-> "user", content |-> "text"]>> }

\* add_messages: a dict with a role becomes the message of the matching type.
TypeOfRole(role) ==
    CASE role = "user" -> "human"
      [] role = "assistant" -> "ai"
      [] OTHER -> role

MessagesFromDicts(dicts) ==
    [i \in 1..Len(dicts) |-> WorkflowMessage(TypeOfRole(dicts[i].role), dicts[i].content)]

\* convert_to_openai_messages: the role that stands for a message type.
RoleOfType(type) ==
    CASE type = "human" -> "user"
      [] type = "ai" -> "assistant"
      [] OTHER -> type

ConvertToOpenAIMessages(msgs) ==
    [i \in 1..Len(msgs) |-> [role |-> RoleOfType(msgs[i].type), content |-> msgs[i].content]]

\* Message.validate_content: script tags are refused.
ValidateContent(content) == content # HARMFUL

\* Message(**message) is constructed without a validation error.
MessageValid(m) ==
    /\ m.role \in {"user", "assistant", "system"}
    /\ m.content # ""
    /\ ValidateContent(m.content)

\* MessageDebug(**message) is constructed without a validation error.
MessageDebugValid(m) ==
    /\ m.role \in {"user", "assistant", "system", "tool"}
    /\ ValidateContent(m.content)

\* A test that leaves the environment out.
DebugEnabledInAnyEnvironment(debug) == debug /\ _debug

\* if debug and self._debug and settings.ENVIRONMENT in (DEVELOPMENT, TEST)
DebugEnabled(debug) == debug /\ _debug /\ ENVIRONMENT \in {"development", "test"}

\* A filter that lets system messages through as well.
KeepMessageWithSystem(message) ==
    message.role \in {"assistant", "user", "system"} /\ message.content # ""

\* if message["role"] in ["assistant", "user"] and message["content"]
KeepMessage(message) ==
    message.role \in {"assistant", "user"} /\ message.content # ""

\* The list __process_messages builds.
ProcessMessages(msgs, debug) ==
    IF DebugEnabled(debug)
    THEN ConvertToOpenAIMessages(msgs)
    ELSE SelectSeq(ConvertToOpenAIMessages(msgs), KeepMessage)

\* Building it raises a validation error.
ProcessMessagesRaises(msgs, debug) ==
    \E m \in Range(ProcessMessages(msgs, debug)) :
        IF DebugEnabled(debug) THEN ~MessageDebugValid(m) ELSE ~MessageValid(m)

InitConv ==
    /\ _debug \in BOOLEAN
    /\ h_pc = "idle"
    /\ h_op = None
    /\ h_session = None
    /\ h_debug = FALSE
    /\ h_input = <<>>
    /\ h_resumed = FALSE
    /\ h_messages = Nothing
    /\ h_result = Nothing
    /\ h_raised = None
    /\ saved = [s \in Sessions |-> Nothing]
    /\ last_turn = Nothing

\* if self._graph is None: self._graph = await self.create_graph(), for a
\* caller that is alone and with the database reachable.
EnsureGraph ==
    /\ storage_up
    /\ IF _graph = Nothing
       THEN /\ workflows_built' = workflows_built + 1
            /\ IF _connection_pool = Nothing
               THEN /\ pools' = Append(pools, "open")
                    /\ _connection_pool' = Some(Len(pools) + 1)
               ELSE UNCHANGED <<pools, _connection_pool>>
            /\ graphs_compiled' = graphs_compiled + 1
            /\ _graph' = Some(CompiledGraph(graphs_compiled + 1))
       ELSE UNCHANGED <<_graph, _connection_pool, pools, workflows_built, graphs_compiled>>
    /\ UNCHANGED <<calls_started, g_op, g_pc, g_pool, g_result, g_used>>

\* The messages the checkpointer of a graph holds for a thread, if any.
Persisted(graph, session) ==
    IF graph.checkpointer = None THEN Nothing ELSE saved[session]

ConvCall(op, session, debug, input) ==
    /\ h_pc \in {"idle", "returned", "raised"}
    /\ h_op' = op
    /\ h_session' = session
    /\ h_debug' = debug
    /\ h_input' = input
    /\ h_messages' = Nothing
    /\ h_result' = Nothing
    /\ h_raised' = None
    /\ EnsureGraph
    /\ UNCHANGED <<_debug, h_resumed, saved, last_turn>>
    /\ UNCHANGED notConv

\* get_response up to await self._graph.ainvoke(...)
GetResponseCall ==
    /\ \E s \in Sessions, input \in InputLists : ConvCall("get_response", s, FALSE, input)
    /\ h_pc' = "ainvoke"

\* ainvoke returns; return self.__process_messages(response["messages"])
GetResponseEnds ==
    /\ h_pc = "ainvoke"
    /\ \E produced \in ProducedLists :
        LET graph == Get(_graph)
            before == Persisted(graph, h_session)
            start == IF before = Nothing THEN <<>> ELSE Get(before)
            all == start \o MessagesFromDicts(DumpMessages(h_input)) \o produced
        IN  /\ h_resumed' = (last_turn # Nothing /\ Get(last_turn).session = h_session
                                => start = Get(last_turn).messages)
            /\ saved' = IF graph.checkpointer = None THEN saved
                        ELSE [saved EXCEPT ![h_session] = Some(all)]
            /\ last_turn' = Some([session |-> h_session, messages |-> all])
            /\ h_messages' = Some(all)
            /\ IF ProcessMessagesRaises(all, FALSE)
               THEN /\ h_pc' = "raised"
                    /\ h_raised' = "ValidationError"
                    /\ h_result' = Nothing
               ELSE /\ h_pc' = "returned"
                    /\ h_raised' = None
                    /\ h_result' = Some(ProcessMessages(all, FALSE))
    /\ UNCHANGED <<_debug, h_op, h_session, h_debug, h_input>>
    /\ UNCHANGED <<graphVars, notConv>>

\* ainvoke raises (the LLM or a tool failed): logged and raised again.
GetResponseFails ==
    /\ h_pc = "ainvoke"
    /\ h_pc' = "raised"
    /\ h_raised' = "WorkflowError"
    /\ UNCHANGED <<_debug, h_op, h_session, h_debug, h_input, h_resumed, h_messages,
                   h_result, saved, last_turn>>
    /\ UNCHANGED <<graphVars, notConv>>

\* get_chat_history up to await sync_to_async(self._graph.get_state)(...)
GetChatHistoryCall ==
    /\ \E s \in Sessions, debug \in BOOLEAN : ConvCall("get_chat_history", s, debug, <<>>)
    /\ h_pc' = "get_state"

\* get_state of a graph compiled without a checkpointer raises ValueError;
\* with one it returns the thread's snapshot, whose values are empty when
\* nothing was saved.
GetChatHistoryEnds ==
    /\ h_pc = "get_state"
    /\ LET graph == Get(_graph)
           snapshot == Persisted(graph, h_session)
       IN  IF graph.checkpointer = None
           THEN /\ h_pc' = "raised"
                /\ h_raised' = "ValueError"
                /\ UNCHANGED <<h_messages, h_result>>
           ELSE IF snapshot = Nothing
           THEN /\ h_pc' = "returned"
                /\ h_result' = Some(<<>>)
                /\ UNCHANGED <<h_messages, h_raised>>
           ELSE /\ h_messages' = snapshot
                /\ IF ProcessMessagesRaises(Get(snapshot), h_debug)
                   THEN /\ h_pc' = "raised"
                        /\ h_raised' = "ValidationError"
                        /\ h_result' = Nothing
                   ELSE /\ h_pc' = "returned"
                        /\ h_raised' = None
                        /\ h_result' = Some(ProcessMessages(Get(snapshot), h_debug))
    /\ UNCHANGED <<_debug, h_op, h_session, h_debug, h_input, h_resumed, saved, last_turn>>
    /\ UNCHANGED <<graphVars, notConv>>

NextConv ==
    \/ GetResponseCall
    \/ GetResponseEnds
    \/ GetResponseFails
    \/ GetChatHistoryCall
    \/ GetChatHistoryEnds

(***************************************************************************)
(* clear_chat_history.  The connection is in autocommit mode, so every     *)
(* DELETE takes effect when it is executed.                                *)
(***************************************************************************)
\* settings.CHECKPOINT_TABLES
CHECKPOINT_TABLES == <<"checkpoint_blobs", "checkpoint_writes", "checkpoints">>

RowStates == [Range(CHECKPOINT_TABLES) -> SUBSET Sessions]

NoRows == [t \in Range(CHECKPOINT_TABLES) |-> {}]

\* DELETE FROM {table} without the WHERE clause.
DeleteEveryRow(thread_ids, session_id) == {}

\* DELETE FROM {table} WHERE thread_id = %s
DeleteWhereThreadId(thread_ids, session_id) == thread_ids \ {session_id}

\* Where the loop goes after the DELETE on table i was executed.
AfterDelete(i) ==
    IF i < Len(CHECKPOINT_TABLES)
    THEN [pc |-> "delete", table |-> i + 1]
    ELSE [pc |-> "returned", table |-> i]

\* A handler that logs the error and goes on with the next table.
AfterDeleteErrorSwallowed(i) == AfterDelete(i)

\* except Exception as e: logger.error(...); raise
AfterDeleteError(i) == [pc |-> "raised", table |-> i]

\* The part of graphVars clear_chat_history never touches.
graphOnlyVars == <<_graph, workflows_built, graphs_compiled, calls_started,
                   g_op, g_pc, g_pool, g_result, g_used>>

InitClear ==
    /\ rows \in RowStates
    /\ rows_at_call = rows
    /\ cl_pc = "idle"
    /\ cl_session = None
    /\ cl_pool = Nothing
    /\ cl_table = 0
    /\ cl_deleted = <<>>
    /\ cl_failed_at = 0
    /\ cl_raised = None

ClearCall(session) ==
    /\ cl_pc \in {"idle", "returned", "raised"}
    /\ cl_session' = session
    /\ rows_at_call' = rows
    /\ cl_pool' = Nothing
    /\ cl_table' = 0
    /\ cl_deleted' = <<>>
    /\ cl_failed_at' = 0
    /\ cl_raised' = None
    /\ UNCHANGED <<rows, graphOnlyVars>>
    /\ UNCHANGED notClear

\* _get_connection_pool finds no pool: it creates and assigns one and awaits
\* its open().
ClearCallNewPool ==
    /\ \E s \in Sessions : ClearCall(s)
    /\ _connection_pool = Nothing
    /\ pools' = Append(pools, "opening")
    /\ _connection_pool' = Some(Len(pools) + 1)
    /\ cl_pc' = "open"

\* _get_connection_pool returns the pool already assigned.
ClearCallCachedPool ==
    /\ \E s \in Sessions : ClearCall(s)
    /\ _connection_pool # Nothing
    /\ cl_pc' = "connect"
    /\ UNCHANGED <<_connection_pool, pools>>

\* await self._connection_pool.open() returns.
ClearOpenReturns ==
    /\ cl_pc = "open"
    /\ pools' = [pools EXCEPT ![Get(_connection_pool)] = "open"]
    /\ cl_pool' = _connection_pool
    /\ cl_pc' = "connect"
    /\ UNCHANGED <<rows, rows_at_call, cl_session, cl_table, cl_deleted, cl_failed_at,
                   cl_raised>>
    /\ UNCHANGED <<_connection_pool, graphOnlyVars, notClear>>

\* await self._connection_pool.open() raises. Outside production
\* _get_connection_pool raises; in production it returns None, and
\* conn_pool.connection() raises AttributeError. Either way the outer handler
\* logs and raises.
ClearOpenRaises ==
    /\ cl_pc = "open"
    /\ ~storage_up
    /\ pools' = [pools EXCEPT ![Get(_connection_pool)] = "failed"]
    /\ cl_pool' = Nothing
    /\ cl_pc' = "raised"
    /\ cl_raised' = IF ENVIRONMENT = "production" THEN "AttributeError" ELSE "OperationalError"
    /\ UNCHANGED <<rows, rows_at_call, cl_session, cl_table, cl_deleted, cl_failed_at>>
    /\ UNCHANGED <<_connection_pool, graphOnlyVars, notClear>>

\* async with conn_pool.connection() as conn: a connection is obtained.
ClearConnects ==
    /\ cl_pc = "connect"
    /\ storage_up
    /\ cl_pool' = _connection_pool
    /\ cl_pc' = "delete"
    /\ cl_table' = 1
    /\ UNCHANGED <<rows, rows_at_call, cl_session, cl_deleted, cl_failed_at, cl_raised>>
    /\ UNCHANGED <<graphVars, notClear>>

\* async with conn_pool.connection() as conn: no connection can be obtained.
ClearConnectFails ==
    /\ cl_pc = "connect"
    /\ ~storage_up
    /\ cl_pool' = _connection_pool
    /\ cl_pc' = "raised"
    /\ cl_raised' = "PoolTimeout"
    /\ UNCHANGED <<rows, rows_at_call, cl_session, cl_table, cl_deleted, cl_failed_at>>
    /\ UNCHANGED <<graphVars, notClear>>

\* await conn.execute(DELETE ...) on the current table succeeds.
ClearDeletes ==
    /\ cl_pc = "delete"
    /\ LET table == CHECKPOINT_TABLES[cl_table]
       IN  /\ rows' = [rows EXCEPT ![table] = DeleteWhereThreadId(rows[table], cl_session)]
           /\ cl_deleted' = Append(cl_deleted, table)
    /\ cl_pc' = AfterDelete(cl_table).pc
    /\ cl_table' = AfterDelete(cl_table).table
    /\ UNCHANGED <<rows_at_call, cl_session, cl_pool, cl_failed_at, cl_raised>>
    /\ UNCHANGED <<graphVars, notClear>>

\* await conn.execute(DELETE ...) on the current table raises.
ClearDeleteFails ==
    /\ cl_pc = "delete"
    /\ cl_failed_at' = cl_table
    /\ cl_pc' = AfterDeleteError(cl_table).pc
    /\ cl_table' = AfterDeleteError(cl_table).table
    /\ cl_raised' = IF cl_pc' = "raised" THEN "DatabaseError" ELSE cl_raised
    /\ UNCHANGED <<rows, rows_at_call, cl_session, cl_pool, cl_deleted>>
    /\ UNCHANGED <<graphVars, notClear>>

NextClear ==
    \/ ClearCallNewPool
    \/ ClearCallCachedPool
    \/ ClearOpenReturns
    \/ ClearOpenRaises
    \/ ClearConnects
    \/ ClearConnectFails
    \/ ClearDeletes
    \/ ClearDeleteFails

(***************************************************************************)
(* get_stream_response: an async generator over self._graph.astream(...).  *)
(* The generator is suspended at its yield until the consumer asks for the *)
(* next fragment, or throws an exception into it.                          *)
(***************************************************************************)
\* A chunk without a content attribute: token.content raises AttributeError.
NoContent == "<no content>"

TokenKinds == {"a", "b", NoContent}

TokenLists == SeqsUpTo(TokenKinds, MaxTokens)

\* A handler that ends the stream on a chunk's error.
TokenErrorEndsStream(i) == "raised"

\* except Exception as token_error: logger.error(...); continue
AfterTokenError(i) == "astream"

InitStream ==
    /\ st_pc = "idle"
    /\ st_tokens = <<>>
    /\ st_fail_at = 0
    /\ st_index = 0
    /\ st_yielded = <<>>
    /\ st_skipped = <<>>
    /\ st_raised = None

\* The generator is started: the graph is there or is built, then astream is
\* entered. The chunks the workflow will produce, and the place where its
\* stream fails, are the inputs of the run.
StreamCall ==
    /\ st_pc \in {"idle", "done", "raised"}
    /\ \E tokens \in TokenLists, fail_at \in 0..MaxTokens :
          /\ fail_at <= Len(tokens) + 1
          /\ st_tokens' = tokens
          /\ st_fail_at' = fail_at
    /\ st_index' = 0
    /\ st_yielded' = <<>>
    /\ st_skipped' = <<>>
    /\ st_raised' = None
    /\ st_pc' = "astream"
    /\ EnsureGraph
    /\ UNCHANGED notStream

\* astream hands over the next chunk.
StreamHasNext ==
    /\ st_pc = "astream"
    /\ st_index < Len(st_tokens)
    /\ st_index + 1 # st_fail_at

\* yield token.content
StreamYields ==
    /\ StreamHasNext
    /\ st_tokens[st_index + 1] # NoContent
    /\ st_index' = st_index + 1
    /\ st_yielded' = Append(st_yielded, [position |-> st_index + 1,
                                         content |-> st_tokens[st_index + 1]])
    /\ st_pc' = "yield"
    /\ UNCHANGED <<st_tokens, st_fail_at, st_skipped, st_raised>>
    /\ UNCHANGED <<graphVars, notStream>>

\* token.content raises: the inner handler logs, and the loop continues.
StreamSkips ==
    /\ StreamHasNext
    /\ st_tokens[st_index + 1] = NoContent
    /\ st_index' = st_index + 1
    /\ st_skipped' = Append(st_skipped, st_index + 1)
    /\ st_pc' = AfterTokenError(st_index + 1)
    /\ st_raised' = IF st_pc' = "raised" THEN "AttributeError" ELSE None
    /\ UNCHANGED <<st_tokens, st_fail_at, st_yielded>>
    /\ UNCHANGED <<graphVars, notStream>>

\* The consumer asks for the next fragment.
ConsumerResumes ==
    /\ st_pc = "yield"
    /\ st_pc' = "astream"
    /\ UNCHANGED <<st_tokens, st_fail_at, st_index, st_yielded, st_skipped, st_raised>>
    /\ UNCHANGED <<graphVars, notStream>>

\* The consumer throws an exception into the generator: it is raised at the
\* yield, inside the inner try, so it is logged and the loop continues.
ConsumerThrows ==
    /\ st_pc = "yield"
    /\ st_pc' = AfterTokenError(st_index)
    /\ st_raised' = IF st_pc' = "raised" THEN "ConsumerError" ELSE None
    /\ UNCHANGED <<st_tokens, st_fail_at, st_index, st_yielded, st_skipped>>
    /\ UNCHANGED <<graphVars, notStream>>

\* astream raises: the outer handler logs and raises.
StreamFails ==
    /\ st_pc = "astream"
    /\ st_index + 1 = st_fail_at
    /\ st_pc' = "raised"
    /\ st_raised' = "WorkflowError"
    /\ UNCHANGED <<st_tokens, st_fail_at, st_index, st_yielded, st_skipped>>
    /\ UNCHANGED <<graphVars, notStream>>

\* astream is exhausted: the generator ends.
StreamCompletes ==
    /\ st_pc = "astream"
    /\ st_index = Len(st_tokens)
    /\ st_index + 1 # st_fail_at
    /\ st_pc' = "done"
    /\ UNCHANGED <<st_tokens, st_fail_at, st_index, st_yielded, st_skipped, st_raised>>
    /\ UNCHANGED <<graphVars, notStream>>

NextStream ==
    \/ StreamCall
    \/ StreamYields
    \/ StreamSkips
    \/ ConsumerResumes
    \/ ConsumerThrows
    \/ StreamFails
    \/ StreamCompletes

(***************************************************************************)
(* MultiIndexManager, DocumentProcessor.process_document and the document  *)
(* methods of RagInterface.  The vector index lives in the persistent      *)
(* Chroma collection; the keyword and the relationship index live in       *)
(* memory and are written to their directories by persist().               *)
(***************************************************************************)
FilePaths == {"User_documents/1/a.txt", "User_documents/1/b.pdf"}

\* os.path.basename(file_path)
Basename(file_path) ==
    CASE file_path = "User_documents/1/a.txt" -> "a.txt"
      [] file_path = "User_documents/1/b.pdf" -> "b.pdf"

\* os.path.splitext(file_name)[0]
SplitextStem(file_name) ==
    CASE file_name = "a.txt" -> "a"
      [] file_name = "b.pdf" -> "b"

\* uuid.uuid4().hex[:8]
UuidPrefixes == {"0f3a9c1d"}

\* f"{os.path.splitext(file_name)[0]}_{uuid.uuid4().hex[:8]}"
DocId(file_name, uuid_prefix) == [stem |-> SplitextStem(file_name), uuid |-> uuid_prefix]

\* No doc id (no call yet).
NoDocId == [stem |-> "", uuid |-> ""]

\* A doc id no document was ever given.
UnknownDocId == [stem |-> "zzz", uuid |-> "00000000"]

\* The k-th node of a document: document.id_ = doc_id makes doc_id the node's
\* ref_doc_id, and the metadata is stamped with doc_id and the file's name.
DocumentNode(file_path, doc_id, k) ==
    [ref_doc_id |-> doc_id, doc_id |-> doc_id, file_name |-> Basename(file_path), chunk |-> k]

\* process_document(file_path, doc_id) for a file the parser cuts in n nodes.
ProcessDocument(file_path, doc_id, n) ==
    [k \in 1..n |-> DocumentNode(file_path, doc_id, k)]

IndexNames == <<"vector", "keyword", "kg">>

\* The insert_nodes calls of MultiIndexManager.add_document, in order: for
\* every node, the vector, the keyword and the relationship index.
InsertPlan(nodes) ==
    [p \in 1..(3 * Len(nodes)) |->
        [index |-> IndexNames[((p - 1) % 3) + 1], node |-> nodes[((p - 1) \div 3) + 1]]]

\* The calls whose effect is left if the earlier inserts were undone.
InsertsRolledBack(plan, fail_at) == IF fail_at = 0 THEN plan ELSE <<>>

\* The calls that are made when the call at position fail_at raises (0: none
\* raises): the exception leaves add_document at once.
ExecutedInserts(plan, fail_at) ==
    IF fail_at = 0 THEN plan ELSE SubSeq(plan, 1, fail_at - 1)

InsertedInto(index_name, executed) ==
    {executed[p].node : p \in {q \in 1..Len(executed) : executed[q].index = index_name}}

\* An insert that adds nothing.
InsertNothing(content, nodes) == content

\* index.insert_nodes(...)
InsertNodes(content, nodes) == content \cup nodes

\* index.adelete_ref_doc(doc_id, delete_from_docstore=True)
DeleteRefDoc(content, doc_id) == {n \in content : n.ref_doc_id # doc_id}

\* What a storage directory holds: a state that loads, or nothing that loads
\* (no directory yet, or a damaged one).
Stored(nodes) == [ok |-> TRUE, nodes |-> nodes]

Unloadable == [ok |-> FALSE, nodes |-> {}]

\* What process_document finds at file_path: whether the path exists, and
\* how many documents the reader loads from it.
Files == {file \in [exists : BOOLEAN, loaded : 0..1] : ~file.exists => file.loaded = 0}

PresentFile == [exists |-> TRUE, loaded |-> 1]

\* A chunker that makes no check.
ChunkerOutcomeUnchecked(file) == "nodes"

\* if not os.path.exists(file_path): raise FileNotFoundError(...)
\* if not documents: raise ValueError(...)
ChunkerOutcome(file) ==
    IF ~file.exists THEN "FileNotFoundError"
    ELSE IF file.loaded = 0 THEN "ValueError"
    ELSE "nodes"

\* The indices and the persisted states before any call.
NothingBefore ==
    [vector |-> {}, keyword |-> {}, kg |-> {}, keyword_disk |-> Unloadable, kg_disk |-> Unloadable]

\* Before the first run: an empty Chroma directory, no index directories.
InitIndex ==
    /\ ix_pc = "unbuilt"
    /\ chroma = {}
    /\ keyword_index = {}
    /\ kg_index = {}
    /\ keyword_disk = Unloadable
    /\ kg_disk = Unloadable
    /\ disk_before = [keyword |-> Unloadable, kg |-> Unloadable]
    /\ generated_ids = {}
    /\ a_pc = "idle"
    /\ a_doc_id = NoDocId
    /\ a_file_path = None
    /\ a_file = PresentFile
    /\ a_nodes = <<>>
    /\ a_fail_at = 0
    /\ a_before = NothingBefore
    /\ d_pc = "idle"
    /\ d_doc_id = NoDocId
    /\ d_before = [vector |-> {}, keyword |-> {}]
    /\ d_result = None
    /\ deleted_ok = {}

callVars == <<a_pc, a_doc_id, a_file_path, a_file, a_nodes, a_fail_at, a_before, d_pc,
              d_doc_id, d_before, d_result>>

\* _load_or_create_indexes: all three loads succeed.
ConstructLoads ==
    /\ ix_pc = "unbuilt"
    /\ keyword_disk.ok /\ kg_disk.ok
    /\ disk_before' = [keyword |-> keyword_disk, kg |-> kg_disk]
    /\ keyword_index' = keyword_disk.nodes
    /\ kg_index' = kg_disk.nodes
    /\ ix_pc' = "ready"
    /\ UNCHANGED <<chroma, keyword_disk, kg_disk, generated_ids, callVars, deleted_ok>>
    /\ UNCHANGED notIndex

\* _load_or_create_indexes: a load raises. The one handler builds all three
\* indices anew from no documents (the vector index on the same Chroma
\* collection) and persists the empty keyword and relationship indices.
ConstructCreatesEmpty ==
    /\ ix_pc = "unbuilt"
    /\ ~(keyword_disk.ok /\ kg_disk.ok)
    /\ disk_before' = [keyword |-> keyword_disk, kg |-> kg_disk]
    /\ keyword_index' = {}
    /\ kg_index' = {}
    /\ keyword_disk' = Stored({})
    /\ kg_disk' = Stored({})
    /\ ix_pc' = "ready"
    /\ UNCHANGED <<chroma, generated_ids, callVars, deleted_ok>>
    /\ UNCHANGED notIndex

\* RagInterface.add_document: it has no await, so it runs in one piece. The
\* inputs are the path, what is found there, the number of nodes the parser
\* makes of a document, and the insert that raises (0: none).
AddDocumentCall(file_path, file_name, uuid_prefix, file, n, fail_at) ==
    LET doc_id == DocId(file_name, uuid_prefix)
        outcome == ChunkerOutcome(file)
        nodes == IF outcome = "nodes" THEN ProcessDocument(file_path, doc_id, n) ELSE <<>>
        executed == ExecutedInserts(InsertPlan(nodes), fail_at)
    IN  /\ ix_pc = "ready"
        /\ doc_id \notin generated_ids
        /\ generated_ids' = IF outcome = "nodes" THEN generated_ids \cup {doc_id}
                            ELSE generated_ids
        /\ a_doc_id' = doc_id
        /\ a_file_path' = file_path
        /\ a_file' = file
        /\ a_nodes' = nodes
        /\ a_fail_at' = fail_at
        /\ a_before' = [vector |-> chroma, keyword |-> keyword_index, kg |-> kg_index,
                        keyword_disk |-> keyword_disk, kg_disk |-> kg_disk]
        /\ chroma' = InsertNodes(chroma, InsertedInto("vector", executed))
        /\ keyword_index' = InsertNodes(keyword_index, InsertedInto("keyword", executed))
        /\ kg_index' = InsertNodes(kg_index, InsertedInto("kg", executed))
        /\ IF outcome # "nodes"
           THEN /\ UNCHANGED <<keyword_disk, kg_disk>>
                /\ a_pc' = outcome
           ELSE IF fail_at = 0
           THEN /\ keyword_disk' = Stored(keyword_index')
                /\ kg_disk' = Stored(kg_index')
                /\ a_pc' = "returned"
           ELSE /\ UNCHANGED <<keyword_disk, kg_disk>>
                /\ a_pc' = "raised"
        /\ UNCHANGED <<ix_pc, disk_before, d_pc, d_doc_id, d_before, d_result, deleted_ok>>

\* add_document called on its own.
AddDocument(file_path, file_name, uuid_prefix, file, n, fail_at) ==
    /\ AddDocumentCall(file_path, file_name, uuid_prefix, file, n, fail_at)
    /\ UNCHANGED notIndex

\* The calls the upload endpoint makes: the file is saved under its own name,
\* add_document(file_path=folder / filename, file_name=filename).
Uploads == {[file_path |-> p, file_name |-> Basename(p)] : p \in FilePaths}

AddDocumentReturns ==
    \E upload \in Uploads, uuid_prefix \in UuidPrefixes, n \in 1..MaxChunks :
        AddDocument(upload.file_path, upload.file_name, uuid_prefix, PresentFile, n, 0)

AddDocumentRaises ==
    \E upload \in Uploads, uuid_prefix \in UuidPrefixes, n \in 1..MaxChunks :
        \E fail_at \in 1..(3 * n) :
            AddDocument(upload.file_path, upload.file_name, uuid_prefix, PresentFile, n, fail_at)

\* process_document raises: the path does not exist, or nothing loads.
AddDocumentChunkerRaises ==
    \E upload \in Uploads, uuid_prefix \in UuidPrefixes, n \in 1..MaxChunks :
        \E file \in Files \ {PresentFile} :
            AddDocument(upload.file_path, upload.file_name, uuid_prefix, file, n, 0)

\* The record of the last add_document call is dropped (another operation
\* has changed the indices since).
ForgetAdd ==
    /\ a_pc' = "idle"
    /\ a_doc_id' = NoDocId
    /\ a_file_path' = None
    /\ a_file' = PresentFile
    /\ a_nodes' = <<>>
    /\ a_fail_at' = 0
    /\ a_before' = NothingBefore

\* RagInterface.delete_document up to the first await of
\* MultiIndexManager.delete_document.
DeleteDocumentCall ==
    /\ ix_pc = "ready"
    /\ d_pc \in {"idle", "returned"}
    /\ \E doc_id \in generated_ids \cup {UnknownDocId} : d_doc_id' = doc_id
    /\ d_before' = [vector |-> chroma, keyword |-> keyword_index]
    /\ d_pc' = "vector"
    /\ d_result' = None
    /\ ForgetAdd
    /\ UNCHANGED <<ix_pc, chroma, keyword_index, kg_index, keyword_disk, kg_disk, disk_before,
                   generated_ids, deleted_ok>>
    /\ UNCHANGED notIndex

\* await self.vector_index.adelete_ref_doc(...) returns.
DeleteFromVector ==
    /\ d_pc = "vector"
    /\ chroma' = DeleteRefDoc(chroma, d_doc_id)
    /\ d_pc' = "keyword"
    /\ ForgetAdd
    /\ UNCHANGED <<ix_pc, keyword_index, kg_index, keyword_disk, kg_disk, disk_before,
                   generated_ids, d_doc_id, d_before, d_result, deleted_ok>>
    /\ UNCHANGED notIndex

\* await self.keyword_index.adelete_ref_doc(...) returns; the keyword index is
\* persisted; the relationship index is left as it is; return True.
DeleteFromKeyword ==
    /\ d_pc = "keyword"
    /\ keyword_index' = DeleteRefDoc(keyword_index, d_doc_id)
    /\ keyword_disk' = Stored(keyword_index')
    /\ d_pc' = "returned"
    /\ d_result' = TRUE
    /\ deleted_ok' = deleted_ok \cup {d_doc_id}
    /\ ForgetAdd
    /\ UNCHANGED <<ix_pc, chroma, kg_index, kg_disk, disk_before, generated_ids, d_doc_id,
                   d_before>>
    /\ UNCHANGED notIndex

\* await self.keyword_index.adelete_ref_doc(...) returns and persist() raises:
\* the handler of RagInterface.delete_document logs and returns False.
DeletePersistFails ==
    /\ d_pc = "keyword"
    /\ keyword_index' = DeleteRefDoc(keyword_index, d_doc_id)
    /\ d_pc' = "returned"
    /\ d_result' = FALSE
    /\ ForgetAdd
    /\ UNCHANGED <<ix_pc, chroma, kg_index, keyword_disk, kg_disk, disk_before, generated_ids,
                   d_doc_id, d_before, deleted_ok>>
    /\ UNCHANGED notIndex

\* One of the two deletes raises: the handler of RagInterface.delete_document
\* logs and returns False.
DeleteFails ==
    /\ d_pc \in {"vector", "keyword"}
    /\ d_pc' = "returned"
    /\ d_result' = FALSE
    /\ UNCHANGED <<ix_pc, chroma, keyword_index, kg_index, keyword_disk, kg_disk, disk_before,
                   generated_ids, a_pc, a_doc_id, a_file_path, a_file, a_nodes, a_fail_at,
                   a_before, d_doc_id, d_before, deleted_ok>>
    /\ UNCHANGED notIndex

\* The process ends: what was in memory is gone, the directories stay.
ProcessEnds ==
    /\ ix_pc = "ready"
    /\ ix_pc' = "unbuilt"
    /\ keyword_index' = {}
    /\ kg_index' = {}
    /\ ForgetAdd
    /\ d_pc' = "idle"
    /\ d_doc_id' = NoDocId
    /\ d_before' = [vector |-> {}, keyword |-> {}]
    /\ d_result' = None
    /\ UNCHANGED <<chroma, keyword_disk, kg_disk, disk_before, generated_ids, deleted_ok>>
    /\ UNCHANGED notIndex

\* Between two runs a storage directory is damaged or removed.
StoreBecomesUnloadable ==
    /\ ix_pc = "unbuilt"
    /\ \/ keyword_disk.ok /\ keyword_disk' = Unloadable /\ UNCHANGED kg_disk
       \/ kg_disk.ok /\ kg_disk' = Unloadable /\ UNCHANGED keyword_disk
    /\ UNCHANGED <<ix_pc, chroma, keyword_index, kg_index, disk_before, generated_ids,
                   callVars, deleted_ok>>
    /\ UNCHANGED notIndex

NextIndex ==
    \/ ConstructLoads
    \/ ConstructCreatesEmpty
    \/ AddDocumentReturns
    \/ AddDocumentRaises
    \/ AddDocumentChunkerRaises
    \/ DeleteDocumentCall
    \/ DeleteFromVector
    \/ DeleteFromKeyword
    \/ DeletePersistFails
    \/ DeleteFails
    \/ ProcessEnds
    \/ StoreBecomesUnloadable

(***************************************************************************)
(* KnowledgeBaseTool: _run and _arun.  The tool holds its RagInterface as  *)
(* the field rag_system; what that object's search does for a query is the *)
(* input of an invocation.  A text is modelled as the sequence of the      *)
(* pieces it is concatenated from.                                         *)
(***************************************************************************)
\* The names a source list may hold ('N/A' stands for a node without file_name).
SourceNames == {"tomatoes_fert_plan.txt", "roses.txt", "N/A"}

Answers == {"", "synthesized", CANNED_ANSWER, "Empty Response"}

\* The values of RAGResponse(answer: str, sources: List[str]).
RAGResponses == [answer : Answers, sources : SeqsUpTo(SourceNames, MaxSources)]

NOT_FOUND == "Not found in the knowledge base"

\* ", ".join(response.sources)
RECURSIVE JoinSources(_)
JoinSources(sources) ==
    IF sources = <<>> THEN <<>>
    ELSE IF Len(sources) = 1 THEN <<sources[1]>>
    ELSE <<sources[1], ", ">> \o JoinSources(Tail(sources))

\* A tool that answers with nothing when there are no sources.
ToolTextEmptyWithoutSources(rag_response) ==
    IF rag_response.sources = <<>>
    THEN <<>>
    ELSE <<"Answer: ", rag_response.answer, "\nSources: ">> \o JoinSources(rag_response.sources)

\* if not response.sources: return f"Answer: {answer}\nSources: Not found ..."
\* return f"Answer: {answer}\nSources: {sources_str}"
ToolText(rag_response) ==
    IF rag_response.sources = <<>>
    THEN <<"Answer: ", rag_response.answer, "\nSources: ", NOT_FOUND>>
    ELSE <<"Answer: ", rag_response.answer, "\nSources: ">> \o JoinSources(rag_response.sources)

InitKb ==
    /\ kb_pc = "idle"
    /\ kb_via = None
    /\ kb_response = Nothing
    /\ kb_output = Nothing

\* The tool is entered and runs up to await self.rag_system.search(query).
KbCall(via) ==
    /\ kb_pc \in {"idle", "returned", "raised"}
    /\ kb_via' = via
    /\ kb_pc' = "search"
    /\ kb_response' = Nothing
    /\ kb_output' = Nothing
    /\ UNCHANGED notKb

\* _arun(query), awaited by an asynchronous caller.
ArunCall == KbCall("_arun")

\* _run(query): async_to_sync(self._arun)(query) runs _arun to its end on an
\* event loop and hands its result, or its exception, to the caller.
RunCall == KbCall("_run")

\* search returns: the text is built and returned.
KbSearchReturns ==
    /\ kb_pc = "search"
    /\ \E rag_response \in RAGResponses :
          /\ kb_response' = Some(rag_response)
          /\ kb_output' = Some(ToolText(rag_response))
    /\ kb_pc' = "returned"
    /\ UNCHANGED kb_via
    /\ UNCHANGED notKb

\* search raises: _arun has no handler.
KbSearchRaises ==
    /\ kb_pc = "search"
    /\ kb_pc' = "raised"
    /\ UNCHANGED <<kb_via, kb_response, kb_output>>
    /\ UNCHANGED notKb

NextKb ==
    \/ ArunCall
    \/ RunCall
    \/ KbSearchReturns
    \/ KbSearchRaises

(***************************************************************************)
(* __process_messages as its two callers use it: get_response passes the   *)
(* messages of the turn and no debug argument, get_chat_history passes the *)
(* messages of the snapshot and its own debug argument.                    *)
(***************************************************************************)
\* The message lists of a session: the user's message and what the workflow
\* produced.
WorkflowLists ==
    {MessagesFromDicts(input) \o produced : input \in InputLists, produced \in ProducedLists}

\* The debug arguments a caller can pass.
DebugArguments(caller) == IF caller = "get_response" THEN {FALSE} ELSE BOOLEAN

InitPm ==
    /\ pm_pc = "idle"
    /\ pm_caller = None
    /\ pm_messages = <<>>
    /\ pm_debug = FALSE
    /\ pm_result = Nothing

ProcessMessagesCall(caller, msgs, debug) ==
    /\ pm_caller' = caller
    /\ pm_messages' = msgs
    /\ pm_debug' = debug
    /\ UNCHANGED notPm

\* The list is built and returned.
ProcessMessagesReturns ==
    \E caller \in {"get_response", "get_chat_history"}, msgs \in WorkflowLists :
        \E debug \in DebugArguments(caller) :
            /\ ~ProcessMessagesRaises(msgs, debug)
            /\ ProcessMessagesCall(caller, msgs, debug)
            /\ pm_result' = Some(ProcessMessages(msgs, debug))
            /\ pm_pc' = "returned"

\* Message(**message) or MessageDebug(**message) refuses a message.
ProcessMessagesFails ==
    \E caller \in {"get_response", "get_chat_history"}, msgs \in WorkflowLists :
        \E debug \in DebugArguments(caller) :
            /\ ProcessMessagesRaises(msgs, debug)
            /\ ProcessMessagesCall(caller, msgs, debug)
            /\ pm_result' = Nothing
            /\ pm_pc' = "raised"

NextPm ==
    \/ ProcessMessagesReturns
    \/ ProcessMessagesFails

(***************************************************************************)
(* The documents API: upload_document and delete_document.  The endpoints  *)
(* reach the document table through database_service and the indices      *)
(* through the RagInterface instance of the module.  Requests are served   *)
(* one after the other.                                                    *)
(***************************************************************************)
UserIds == {1}

\* uuid.uuid4().hex[:8], for the uploads: no value comes twice, the k-th doc
\* id made gets the k-th of them.
UploadUuidPrefixes == <<"0f3a9c1d", "7be2d604", "c41e88a2">>

NextUuidPrefix ==
    {UploadUuidPrefixes[k] :
        k \in {Cardinality(generated_ids) + 1} \cap (1..Len(UploadUuidPrefixes))}

\* document.size; a file of size s is cut in s nodes.
FileSizes == 1..MaxChunks

\* os.path.splitext(document.filename)[-1].lower()
SplitextExtension(file_name) ==
    CASE file_name = "a.txt" -> ".txt"
      [] file_name = "b.pdf" -> ".pdf"

\* Document.index_id: Field(default_factory=str), the empty string.
DefaultIndexId == [stem |-> "", uuid |-> ""]

\* The row create_upload_document(user_id, file_name, size, extension) adds:
\* the endpoint passes no index_id.
NewDocument(id, user_id, file_name, size, extension) ==
    [id |-> id, index_id |-> DefaultIndexId, user_id |-> user_id, filename |-> file_name,
     size |-> size, extension |-> extension]

\* get_uploaded_document(user_id, file_name, size)
GetUploadedDocument(user_id, file_name, size) ==
    {doc \in documents : doc.user_id = user_id /\ doc.filename = file_name /\ doc.size = size}

\* DocumentResponse(id=..., index_id=..., name=..., size=..., extension=...)
DocumentResponse(id, index_id, name, size, extension) ==
    [id |-> id, index_id |-> index_id, name |-> name, size |-> size, extension |-> extension]

NothingUploadedBefore == [vector |-> {}, keyword |-> {}, kg |-> {}, documents |-> {}]

InitDocs ==
    /\ documents = {}
    /\ next_id = 0
    /\ upload_index_id = [id \in 1..MaxRecords |-> NoDocId]
    /\ removed = {}
    /\ add_calls = {}
    /\ up_pc = "idle"
    /\ up_request = Nothing
    /\ up_response = Nothing
    /\ up_before = NothingUploadedBefore
    /\ del_pc = "idle"
    /\ del_record = Nothing

\* A request is received: the one before it has been answered.
RequestReceived ==
    /\ ix_pc = "ready"
    /\ d_pc \in {"idle", "returned"}

UploadReceived(user_id, file_name, size) ==
    /\ RequestReceived
    /\ up_request' = Some([user_id |-> user_id, file_name |-> file_name, size |-> size])
    /\ up_before' = [vector |-> chroma, keyword |-> keyword_index, kg |-> kg_index,
                     documents |-> documents]

\* upload_document: get_uploaded_document finds a row; its descriptor is
\* returned (index_id is left to its default).
UploadFound ==
    \E user_id \in UserIds, upload \in Uploads, size \in FileSizes :
        \E doc \in GetUploadedDocument(user_id, upload.file_name, size) :
            /\ UploadReceived(user_id, upload.file_name, size)
            /\ up_response' = Some(DocumentResponse(doc.id, DefaultIndexId, doc.filename,
                                                    doc.size, doc.extension))
            /\ up_pc' = "found"
            /\ UNCHANGED <<documents, next_id, upload_index_id, removed, add_calls, del_pc,
                           del_record>>
            /\ UNCHANGED indexVars
            /\ UNCHANGED notDocs

\* upload_document: no row is found; the file is saved, add_document indexes
\* it, create_upload_document adds the row, the file is removed.
UploadIndexes ==
    \E user_id \in UserIds, upload \in Uploads, size \in FileSizes :
        \E uuid_prefix \in NextUuidPrefix :
            LET id == next_id + 1
                index_id == DocId(upload.file_name, uuid_prefix)
                doc == NewDocument(id, user_id, upload.file_name, size,
                                   SplitextExtension(upload.file_name))
            IN  /\ GetUploadedDocument(user_id, upload.file_name, size) = {}
                /\ next_id < MaxRecords
                /\ UploadReceived(user_id, upload.file_name, size)
                /\ AddDocumentCall(upload.file_path, upload.file_name, uuid_prefix,
                                   PresentFile, size, 0)
                /\ documents' = documents \cup {doc}
                /\ next_id' = id
                /\ upload_index_id' = [upload_index_id EXCEPT ![id] = index_id]
                /\ add_calls' = add_calls \cup {[index_id |-> index_id,
                                                 file_name |-> upload.file_name,
                                                 size |-> size]}
                /\ up_response' = Some(DocumentResponse(doc.id, index_id, doc.filename,
                                                        doc.size, doc.extension))
                /\ up_pc' = "created"
                /\ UNCHANGED <<removed, del_pc, del_record>>
                /\ UNCHANGED notDocs

\* upload_document: no row is found and an insert of add_document raises; the
\* handler answers with HTTP 500 and no row is added.
UploadFails ==
    \E user_id \in UserIds, upload \in Uploads, size \in FileSizes :
        \E uuid_prefix \in NextUuidPrefix, fail_at \in 1..(3 * size) :
            /\ GetUploadedDocument(user_id, upload.file_name, size) = {}
            /\ UploadReceived(user_id, upload.file_name, size)
            /\ AddDocumentCall(upload.file_path, upload.file_name, uuid_prefix,
                               PresentFile, size, fail_at)
            /\ add_calls' = add_calls \cup {[index_id |-> DocId(upload.file_name, uuid_prefix),
                                             file_name |-> upload.file_name,
                                             size |-> size]}
            /\ up_response' = Nothing
            /\ up_pc' = "failed"
            /\ UNCHANGED <<documents, next_id, upload_index_id, removed, del_pc, del_record>>
            /\ UNCHANGED notDocs

\* The record of the last upload is dropped.
ForgetUpload ==
    /\ up_pc' = "idle"
    /\ up_request' = Nothing
    /\ up_response' = Nothing
    /\ up_before' = NothingUploadedBefore

\* delete_document: delete_upload_document removes the row and returns it;
\* rag.delete_document(removed_document.index_id) runs to its first await.
DeleteRequest ==
    \E doc \in documents :
        /\ RequestReceived
        /\ documents' = documents \ {doc}
        /\ removed' = removed \cup {doc.id}
        /\ del_record' = Some(doc)
        /\ del_pc' = "rag"
        /\ d_doc_id' = doc.index_id
        /\ d_before' = [vector |-> chroma, keyword |-> keyword_index]
        /\ d_pc' = "vector"
        /\ d_result' = None
        /\ ForgetAdd
        /\ ForgetUpload
        /\ UNCHANGED <<next_id, upload_index_id, add_calls>>
        /\ UNCHANGED <<ix_pc, chroma, keyword_index, kg_index, keyword_disk, kg_disk,
                       disk_before, generated_ids, deleted_ok>>
        /\ UNCHANGED notDocs

\* delete_document: no row has the id; the HTTPException(404) raised in the
\* try block is caught by its handler and answered with HTTP 500.
DeleteRequestNoSuchDocument ==
    \E document_id \in 1..MaxRecords :
        /\ RequestReceived
        /\ \A doc \in documents : doc.id # document_id
        /\ del_record' = Nothing
        /\ del_pc' = "failed"
        /\ ForgetUpload
        /\ UNCHANGED <<documents, next_id, upload_index_id, removed, add_calls>>
        /\ UNCHANGED indexVars
        /\ UNCHANGED notDocs

NextDocs ==
    \/ ConstructCreatesEmpty
    \/ UploadFound
    \/ UploadIndexes
    \/ UploadFails
    \/ DeleteRequest
    \/ DeleteRequestNoSuchDocument
    \/ DeleteFromVector
    \/ DeleteFromKeyword
    \/ DeletePersistFails
    \/ DeleteFails

(***************************************************************************)
(* Specifications.                                                         *)
(***************************************************************************)
InitSettings ==
    /\ RERANK_TOP_N \in 0..MaxTopN
    /\ MAX_LLM_CALL_RETRIES \in 0..MaxRetriesSetting
    /\ ENVIRONMENT \in Environments
    /\ storage_up \in BOOLEAN

\* After construction: __init__ (graph.py:65-81) assigns no tools_by_name, so
\* the attribute exists only where the code that embeds the agent has set it.
InitAgent ==
    tools_by_name \in {NoAttribute, ToolNames}

Init ==
    /\ InitSettings
    /\ InitAgent
    /\ InitQuery
    /\ InitChat
    /\ InitTool
    /\ InitGraph
    /\ InitTurn
    /\ InitConv
    /\ InitClear
    /\ InitStream
    /\ InitIndex
    /\ InitKb
    /\ InitPm
    /\ InitDocs

Next ==
    \/ NextQuery
    \/ NextChat
    \/ NextTool
    \/ NextGraph
    \/ NextTurn
    \/ NextConv
    \/ NextClear
    \/ NextStream
    \/ NextIndex
    \/ NextKb
    \/ NextPm
    \/ NextDocs

Spec == Init /\ [][Next]_vars

\* One component at a time, with the settings it does not read fixed.
\* The settings and surroundings a component does not read, fixed.
OtherThanQuery ==
    /\ MAX_LLM_CALL_RETRIES = 3
    /\ tools_by_name = NoAttribute
    /\ ENVIRONMENT = "development"
    /\ storage_up
    /\ _debug = FALSE
    /\ rows = NoRows

OtherThanChat ==
    /\ RERANK_TOP_N = 1
    /\ tools_by_name = NoAttribute
    /\ ENVIRONMENT = "development"
    /\ storage_up
    /\ _debug = FALSE
    /\ rows = NoRows

OtherThanTool ==
    /\ RERANK_TOP_N = 1
    /\ MAX_LLM_CALL_RETRIES = 3
    /\ ENVIRONMENT = "development"
    /\ storage_up
    /\ _debug = FALSE
    /\ rows = NoRows

OtherThanGraph ==
    /\ RERANK_TOP_N = 1
    /\ MAX_LLM_CALL_RETRIES = 3
    /\ tools_by_name = NoAttribute
    /\ _debug = FALSE
    /\ rows = NoRows

InitForQuery ==
    /\ Init
    /\ OtherThanQuery

SpecQuery == InitForQuery /\ [][NextQuery]_vars

InitForChat ==
    /\ Init
    /\ OtherThanChat

SpecChat == InitForChat /\ [][NextChat]_vars

InitForTool ==
    /\ Init
    /\ OtherThanTool

SpecTool == InitForTool /\ [][NextTool]_vars

InitForGraph ==
    /\ Init
    /\ OtherThanGraph

SpecGraph == InitForGraph /\ [][NextGraph]_vars

InitForTurn ==
    /\ Init
    /\ OtherThanQuery
    /\ RERANK_TOP_N = 1

SpecTurn == InitForTurn /\ [][NextTurn]_vars

OtherThanConv ==
    /\ RERANK_TOP_N = 1
    /\ MAX_LLM_CALL_RETRIES = 3
    /\ tools_by_name = NoAttribute
    /\ storage_up
    /\ rows = NoRows

InitForConv ==
    /\ Init
    /\ OtherThanConv

SpecConv == InitForConv /\ [][NextConv]_vars

OtherThanClear ==
    /\ RERANK_TOP_N = 1
    /\ MAX_LLM_CALL_RETRIES = 3
    /\ tools_by_name = NoAttribute
    /\ _debug = FALSE

InitForClear ==
    /\ Init
    /\ OtherThanClear

SpecClear == InitForClear /\ [][NextClear]_vars

OtherThanStream ==
    /\ RERANK_TOP_N = 1
    /\ MAX_LLM_CALL_RETRIES = 3
    /\ tools_by_name = NoAttribute
    /\ ENVIRONMENT = "development"
    /\ storage_up
    /\ _debug = FALSE
    /\ rows = NoRows

InitForStream ==
    /\ Init
    /\ OtherThanStream

SpecStream == InitForStream /\ [][NextStream]_vars

InitForIndex ==
    /\ Init
    /\ OtherThanStream

SpecIndex == InitForIndex /\ [][NextIndex]_vars

InitForKb ==
    /\ Init
    /\ OtherThanStream

SpecKb == InitForKb /\ [][NextKb]_vars

InitForPm ==
    /\ Init
    /\ OtherThanConv

SpecPm == InitForPm /\ [][NextPm]_vars

InitForDocs ==
    /\ Init
    /\ OtherThanStream

SpecDocs == InitForDocs /\ [][NextDocs]_vars

\* The event loop keeps running a turn that has a step to take: the LLM and
\* the tools answer.
FairSpecTurn == SpecTurn /\ WF_vars(NextTurn)

(***************************************************************************)
(* Properties of the retrieval engine.                                     *)
(***************************************************************************)
QueryFinished == q_pc \in {"returned", "raised"}

\* All three retrievers have returned.
RetrievalDone == q_pc \notin {"idle", "vector", "keyword", "kg"} /\ q_raised \notin Retrievers

\* combined_nodes has been computed.
FusionDone == RetrievalDone /\ q_pc # "fuse"

PositionsOf(id) == {j \in 1..Len(AllNodes) : AllNodes[j].id = id}

FirstSeen(id) == AllNodes[CHOOSE j \in PositionsOf(id) : \A k \in PositionsOf(id) : j <= k]

LastSeen(id) == AllNodes[CHOOSE j \in PositionsOf(id) : \A k \in PositionsOf(id) : j >= k]

\* combined_nodes holds every retrieved id, each once.
OneEntryPerNodeId ==
    /\ {combined_nodes[i].id : i \in 1..Len(combined_nodes)} = {n.id : n \in Range(AllNodes)}
    /\ \A i, j \in 1..Len(combined_nodes) :
          combined_nodes[i].id = combined_nodes[j].id => i = j

\* C1: when the three retrievers all return no nodes, search returns (it does
\* not raise) the answer "Could not retrieve any information." with an empty
\* sources list, and the response synthesizer is never invoked.
C1_EmptyRetrievalReturnsCannedAnswer ==
    (RetrievalDone /\ AllNodes = <<>>) =>
        /\ synth_calls = 0
        /\ q_pc # "raised"
        /\ q_pc = "returned" =>
              search_result = Some([answer |-> CANNED_ANSWER, sources |-> <<>>])

\* C2 as stated: the fused set holds one entry per distinct node id, and the
\* entry kept for an id is the first one seen in the order semantic, keyword,
\* relationship.
C2_FirstSeenWins ==
    FusionDone =>
        /\ OneEntryPerNodeId
        /\ \A i \in 1..Len(combined_nodes) :
              combined_nodes[i] = FirstSeen(combined_nodes[i].id)

\* C2 amended: the fused set holds one entry per distinct node id, and the
\* entry kept for an id is the last one seen in the order semantic, keyword,
\* relationship (a later arrival replaces an earlier one).
C2_LastSeenWins ==
    FusionDone =>
        /\ OneEntryPerNodeId
        /\ \A i \in 1..Len(combined_nodes) :
              combined_nodes[i] = LastSeen(combined_nodes[i].id)

\* A fused set in which one node id came from the semantic and from another index.
C2_Witness ==
    /\ FusionDone
    /\ \E a \in Range(vector_nodes), b \in Range(keyword_nodes) \cup Range(kg_nodes) :
          a.id = b.id

\* C3: a retriever that raises does not abort the query (it contributes no
\* nodes and the caller receives a result); the only exception that reaches
\* the caller of aquery/search is one of the synthesis step.
C3_RetrieverFailureContained ==
    /\ q_raised \notin Retrievers
    /\ q_pc = "raised" => q_raised = "synth"

\* The place of a store in the fan-out of aquery.
RetrieverPosition(via) ==
    CASE via = "vector" -> 1
      [] via = "keyword" -> 2
      [] via = "kg" -> 3

\* How many aretrieve calls aquery has made so far.
RetrievesIssued ==
    CASE q_pc = "idle" -> 0
      [] q_pc = "vector" \/ (q_pc = "raised" /\ q_raised = "vector") -> 1
      [] q_pc = "keyword" \/ (q_pc = "raised" /\ q_raised = "keyword") -> 2
      [] OTHER -> 3

\* How many of them have come back (with nodes or with an exception).
RetrievesCompleted ==
    CASE q_pc \in {"idle", "vector"} -> 0
      [] q_pc = "keyword" \/ (q_pc = "raised" /\ q_raised = "vector") -> 1
      [] q_pc = "kg" \/ (q_pc = "raised" /\ q_raised = "keyword") -> 2
      [] OTHER -> 3

RetrieveIssued(via) == RetrieverPosition(via) <= RetrievesIssued

RetrieveCompleted(via) == RetrieverPosition(via) <= RetrievesCompleted

\* C24: the retrieval fan-out is concurrent: the retrieve requests to the
\* semantic, the keyword and the relationship store are all issued before
\* any of them has been awaited to completion, and the fused set holds the
\* union of their results.
C24_ConcurrentFanOut ==
    /\ \A v, w \in Retrievers : RetrieveCompleted(v) => RetrieveIssued(w)
    /\ FusionDone =>
          {combined_nodes[i].id : i \in 1..Len(combined_nodes)} = {n.id : n \in Range(AllNodes)}

\* The file names of a list of nodes.
FileNames(nodes) == {n.file_name : n \in Range(nodes)}

\* A query with a non-empty fused set has ended, and neither the reranker
\* nor the synthesizer failed.
NonEmptyFusionEnded ==
    /\ FusionDone
    /\ combined_nodes # <<>>
    /\ QueryFinished
    /\ q_raised \notin {"rerank", "synth"}

\* C23: when the fused result set is non-empty, search reranks, synthesizes
\* and returns a non-empty answer whose sources are the distinct file names
\* of the nodes used for the synthesis, each once; when these nodes all come
\* from "tomatoes_fert_plan.txt", the sources are ["tomatoes_fert_plan.txt"].
C23_NonEmptyFusionAnswered ==
    NonEmptyFusionEnded =>
        /\ q_pc = "returned"
        /\ synth_calls = 1
        /\ Get(search_result).answer # ""
        /\ Range(Get(search_result).sources) = FileNames(reranked_nodes)
        /\ Len(Get(search_result).sources) = Cardinality(FileNames(reranked_nodes))
        /\ FileNames(reranked_nodes) = {"tomatoes_fert_plan.txt"} =>
              Get(search_result).sources = <<"tomatoes_fert_plan.txt">>

(***************************************************************************)
(* Properties of _chat.                                                    *)
(***************************************************************************)
ChatFinished == chat_pc \in {"returned", "raised"}

\* The LLM of this call fails exactly K - 1 times and then succeeds.
FailuresThenSuccessK == llm_calls_num + llm_failures_left + 1

\* C4: with an LLM that fails exactly K - 1 times and then succeeds, _chat
\* configured with MAX_LLM_CALL_RETRIES = K returns the generated message, and
\* configured with a smaller value it raises and returns nothing.
C4_RetryBound ==
    ChatFinished =>
        /\ MAX_LLM_CALL_RETRIES = FailuresThenSuccessK =>
              /\ chat_pc = "returned"
              /\ generated_state # Nothing
              /\ Len(Get(generated_state).messages) = 1
        /\ MAX_LLM_CALL_RETRIES < FailuresThenSuccessK =>
              /\ chat_pc = "raised"
              /\ generated_state = Nothing

\* _chat returned on its last permitted attempt, after at least one failure.
C4_Witness ==
    /\ chat_pc = "returned"
    /\ llm_calls_num >= 1
    /\ MAX_LLM_CALL_RETRIES = llm_calls_num + 1

\* The number of failures the LLM of this call makes before its first success.
FailuresBeforeSuccess == llm_calls_num + llm_failures_left

\* C26: _chat invokes the LLM exactly min(f + 1, MAX_LLM_CALL_RETRIES) times,
\* f being the number of failures before the first success: no call follows
\* a success, the number of calls never exceeds the maximum, with a maximum
\* of 0 no call is made and _chat raises, and every attempt is given the
\* same prepared message sequence.
C26_LlmCallCount ==
    /\ Len(llm_inputs) <= MAX_LLM_CALL_RETRIES
    /\ \A i \in 1..Len(llm_inputs) :
          llm_inputs[i] = DumpMessages(PrepareMessages(state_messages))
    /\ ChatFinished =>
          Len(llm_inputs) = Min2(FailuresBeforeSuccess + 1, MAX_LLM_CALL_RETRIES)
    /\ chat_pc = "returned" => Len(llm_inputs) = llm_calls_num + 1 /\ llm_failures_left = 0
    /\ (MAX_LLM_CALL_RETRIES = 0 /\ chat_pc # "idle") =>
          chat_pc = "raised" /\ llm_inputs = <<>>

\* _chat gave up after the permitted number of calls, each with the same
\* input, while the LLM would have failed again.
C26_Witness ==
    /\ chat_pc = "raised"
    /\ MAX_LLM_CALL_RETRIES >= 2
    /\ Len(llm_inputs) = MAX_LLM_CALL_RETRIES
    /\ llm_failures_left > 0

(***************************************************************************)
(* Properties of _tool_call.                                               *)
(***************************************************************************)
ToolCallFinished == tc_pc \in {"returned", "raised"}

\* The invocations ran one at a time, in call order: start and end of call 1,
\* then start and end of call 2, and so on.
SequentialLog(calls) ==
    /\ Len(tool_log) = 2 * Len(calls)
    /\ \A i \in 1..Len(calls) :
          /\ tool_log[2 * i - 1] = [event |-> "start", id |-> calls[i].id]
          /\ tool_log[2 * i] = [event |-> "end", id |-> calls[i].id]

\* C5: an exception of one tool invocation (an unknown tool name included)
\* does not leave _tool_call: _tool_call returns, with a tool-result message
\* for every call, the failed one included.
C5_ToolFailureContained ==
    /\ tc_pc # "raised"
    /\ tc_pc = "returned" => Len(Get(tc_result).messages) = Len(tool_calls)

\* C6: for tool calls c1..cn, _tool_call invokes the tools one at a time in
\* call order and returns exactly n tool messages, the i-th with the name and
\* the call id of ci.
C6_OneResultPerCallInOrder ==
    ToolCallFinished =>
        /\ tc_pc = "returned"
        /\ SequentialLog(tool_calls)
        /\ Len(Get(tc_result).messages) = Len(tool_calls)
        /\ \A i \in 1..Len(tool_calls) :
              /\ Get(tc_result).messages[i].name = tool_calls[i].name
              /\ Get(tc_result).messages[i].tool_call_id = tool_calls[i].id

(***************************************************************************)
(* Properties of the lazy construction of the pool and of the graph.       *)
(***************************************************************************)
\* C8: the workflow graph is compiled at most once, and all callers whose
\* turn runs on a graph run on the same graph object.
C8_GraphBuiltOnce ==
    /\ graphs_compiled <= 1
    /\ \A c, d \in Callers :
          (g_used[c] # Nothing /\ g_used[d] # Nothing) => g_used[c] = g_used[d]

\* C9: at most one connection pool is created, and no caller of
\* _get_connection_pool is handed a pool whose open() has not completed.
C9_PoolInitExclusive ==
    /\ Len(pools) <= 1
    /\ \A c \in Callers : g_pool[c] # Nothing => Get(g_pool[c]).open_state = "open"

\* C10: with the checkpoint storage unreachable, in production create_graph
\* yields a compiled graph and the turns are answered (no call raises); in
\* every other environment create_graph raises and no graph is cached.
C10_DegradeOnlyInProduction ==
    ~storage_up =>
        /\ ENVIRONMENT = "production" =>
              \A c \in Callers : g_op[c] \in TurnOps \cup {"create_graph"} =>
                  /\ g_pc[c] # "raised"
                  /\ (g_op[c] = "create_graph" /\ g_pc[c] = "done") => g_result[c] # Nothing
        /\ ENVIRONMENT # "production" =>
              /\ _graph = Nothing
              /\ \A c \in Callers : g_op[c] \in TurnOps \cup {"create_graph"} =>
                    g_pc[c] \notin {"ainvoke", "done"}

\* C29: after a _get_connection_pool call in which open() failed, the agent
\* holds no cached pool, and no later call is handed the pool object whose
\* open() failed: a later call creates and opens a pool again.
C29_NoStalePoolAfterFailedOpen ==
    /\ _connection_pool # Nothing => pools[Get(_connection_pool)] # "failed"
    /\ \A c \in Callers : g_pool[c] # Nothing => Get(g_pool[c]).open_state # "failed"

(***************************************************************************)
(* Properties of a turn.                                                   *)
(***************************************************************************)
TurnRunning == turn_state \in {"ROUTE", "SPECIALIST_ACT", "TOOL_EXEC"}

RoleContent(msgs) ==
    [i \in 1..Len(msgs) |-> [role |-> RoleOfType(msgs[i].type), content |-> msgs[i].content]]

\* A get_chat_history(s, debug=True) call of a debug-enabled development or
\* test deployment has ended, after a turn for s had completed.
DebugHistoryReadAfterTurn ==
    /\ h_op = "get_chat_history"
    /\ h_pc \in {"returned", "raised"}
    /\ DebugEnabled(h_debug)
    /\ last_turn # Nothing
    /\ Get(last_turn).session = h_session

\* A turn has run to the end of the workflow.
FollowingTurnDone ==
    /\ h_op = "get_response"
    /\ h_pc \in {"returned", "raised"}
    /\ h_messages # Nothing

\* C11: after a turn for session s has completed with the checkpoint storage
\* available, get_chat_history(s, debug=True) of a debug-enabled development
\* or test deployment returns the role/content sequence of that turn's
\* messages, tool messages included, and a following turn on s starts from
\* the persisted state.
C11_HistoryRoundTrip ==
    /\ DebugHistoryReadAfterTurn =>
          /\ h_pc = "returned"
          /\ h_result = Some(RoleContent(Get(last_turn).messages))
    /\ FollowingTurnDone => h_resumed

\* The user and assistant messages with non-empty content, in order.
VisibleMessages(msgs) ==
    SelectSeq(RoleContent(msgs),
              LAMBDA m : m.role \in {"user", "assistant"} /\ m.content # "")

\* get_response, or get_chat_history in non-debug mode, has returned a list.
FilteredListReturned ==
    /\ h_pc = "returned"
    /\ h_messages # Nothing
    /\ h_op = "get_response" \/ ~DebugEnabled(h_debug)

\* C12: the list returned by get_response, and by get_chat_history in
\* non-debug mode, is exactly the subsequence of the workflow's messages
\* whose role is user or assistant and whose content is non-empty, in the
\* original order: no tool, system or empty-content message is in it.
C12_OnlyVisibleMessagesReturned ==
    FilteredListReturned =>
        /\ Get(h_result) = VisibleMessages(Get(h_messages))
        /\ \A m \in Range(Get(h_result)) :
              m.role \notin {"tool", "system"} /\ m.content # ""

\* get_response returned a list from which a system message, a tool message
\* and an empty-content message of the workflow were left out.
C12_Witness ==
    /\ FilteredListReturned
    /\ h_op = "get_response"
    /\ Get(h_result) # <<>>
    /\ \E m \in Range(Get(h_messages)) : m.type = "system"
    /\ \E m \in Range(Get(h_messages)) : m.type = "tool" \/ m.content = ""

(***************************************************************************)
(* Properties of clear_chat_history.                                       *)
(***************************************************************************)
\* C13: after clear_chat_history(s) has returned normally, no checkpoint
\* table of the configured list holds a row with thread id s, and the rows
\* of every other session are the ones that were there at the call.
C13_ClearRemovesOnlyTheSession ==
    cl_pc = "returned" =>
        \A t \in Range(CHECKPOINT_TABLES) :
            /\ cl_session \notin rows[t]
            /\ rows[t] \ {cl_session} = rows_at_call[t] \ {cl_session}

\* A clear returned that had rows to delete and rows of another session to
\* leave in place.
C13_Witness ==
    /\ cl_pc = "returned"
    /\ \E t \in Range(CHECKPOINT_TABLES) : cl_session \in rows_at_call[t]
    /\ \E t \in Range(CHECKPOINT_TABLES) : rows[t] # {}

\* C14: when the DELETE on one table fails, or no connection pool can be
\* had, clear_chat_history stops there and raises: it never returns
\* normally, and no table after the failing one is touched.
C14_ClearFailureRaises ==
    /\ cl_failed_at # 0 =>
          /\ cl_pc = "raised"
          /\ cl_raised # None
          /\ Len(cl_deleted) = cl_failed_at - 1
    /\ (cl_pc \notin {"idle", "open", "connect"} /\ cl_pool = Nothing) =>
          /\ cl_pc = "raised"
          /\ cl_deleted = <<>>
          /\ rows = rows_at_call

\* The DELETE on the second table failed after the first table was cleared.
C14_Witness ==
    /\ cl_failed_at = 2
    /\ cl_pc = "raised"
    /\ rows # rows_at_call

(***************************************************************************)
(* Properties of get_stream_response.                                      *)
(***************************************************************************)
\* The chunks among the first n that have a content, with their positions.
GoodFragments(n) ==
    SelectSeq([i \in 1..n |-> [position |-> i, content |-> st_tokens[i]]],
              LAMBDA f : f.content # NoContent)

\* The astream of the run fails at a position it reaches.
UpstreamFails == st_fail_at # 0

\* C15: a fragment whose processing fails is skipped and every later
\* fragment is still yielded, in production order; a failure of the workflow
\* stream ends the generator by raising; and every fragment processed
\* without failure is yielded exactly once.
C15_StreamSkipsBadFragments ==
    /\ st_yielded = GoodFragments(st_index)
    /\ st_pc = "done" => ~UpstreamFails /\ st_index = Len(st_tokens)
    /\ st_pc = "raised" => UpstreamFails /\ st_index = st_fail_at - 1
    /\ st_pc \in {"astream", "yield"} => st_raised = None

\* A stream ran to its end after a fragment in the middle had been skipped
\* and a later one yielded.
C15_Witness ==
    /\ st_pc = "done"
    /\ st_skipped # <<>>
    /\ \E i \in 1..Len(st_yielded) : st_yielded[i].position > st_skipped[1]

(***************************************************************************)
(* Properties of the indices.                                              *)
(***************************************************************************)
\* What the retriever of an index can hand to the fusion step: nodes of the
\* index (get_all_retrievers builds each retriever on its index).
RetrieverCandidates(via) ==
    CASE via = "vector" -> chroma
      [] via = "keyword" -> keyword_index
      [] via = "kg" -> kg_index

NodesOf(doc_id, content) == {n \in content : n.ref_doc_id = doc_id}

\* C16: once a document that was added has been deleted through the facade
\* (delete_document returned True), no index, semantic, keyword or
\* relationship, yields a node of it to the fusion step any more, so no
\* later search names its file for it, whatever else is indexed.
C16_DeletedDocumentNotRetrieved ==
    ix_pc = "ready" =>
        \A doc_id \in deleted_ok : \A via \in Retrievers :
            NodesOf(doc_id, RetrieverCandidates(via)) = {}

\* A delete-by-document-id has returned.
DeleteReturned == d_pc = "returned"

\* C17: after a delete-by-document-id, the document's nodes are absent from
\* every index, or the result given to the caller is not plain success; a
\* delete that leaves the relationship index untouched never returns True.
C17_DeleteCompleteOrFlagged ==
    (DeleteReturned /\ d_result = TRUE) =>
        \A via \in Retrievers : NodesOf(d_doc_id, RetrieverCandidates(via)) = {}

\* add_document has returned a document id.
AddReturned == a_pc = "returned"

\* C18: after add_document has returned a document id, every node the
\* chunker produced is in the semantic, the keyword and the relationship
\* index, stamped with that id and with the name of the source file, and
\* the persisted keyword and relationship indices hold those nodes.
C18_AddedNodesInAllIndices ==
    AddReturned =>
        /\ Len(a_nodes) >= 1
        /\ \A k \in 1..Len(a_nodes) :
              /\ a_nodes[k].doc_id = a_doc_id
              /\ a_nodes[k].ref_doc_id = a_doc_id
              /\ a_nodes[k].file_name = Basename(a_file_path)
              /\ \A via \in Retrievers : a_nodes[k] \in RetrieverCandidates(via)
              /\ keyword_disk.ok /\ a_nodes[k] \in keyword_disk.nodes
              /\ kg_disk.ok /\ a_nodes[k] \in kg_disk.nodes

\* A document of two nodes was added next to another document.
C18_Witness ==
    /\ AddReturned
    /\ Len(a_nodes) = 2
    /\ a_before.kg # {}

\* add_document was left by the exception of an insert.
AddRaised == a_pc = "raised"

\* The nodes among the first nodes of the call whose insert into the index
\* at place j (1 vector, 2 keyword, 3 relationship) came before position p.
InsertedBefore(p, j) == {a_nodes[k] : k \in {i \in 1..Len(a_nodes) : 3 * (i - 1) + j < p}}

\* C19: when an insert of add_document fails, the error is raised and no
\* document id is returned, the inserts made before it stay in place, and
\* no insert is made after it.
C19_AddFailureKeepsEarlierInserts ==
    AddRaised =>
        /\ a_fail_at \in 1..(3 * Len(a_nodes))
        /\ NodesOf(a_doc_id, chroma) = InsertedBefore(a_fail_at, 1)
        /\ NodesOf(a_doc_id, keyword_index) = InsertedBefore(a_fail_at, 2)
        /\ NodesOf(a_doc_id, kg_index) = InsertedBefore(a_fail_at, 3)

\* The insert of the second node into the keyword index failed.
C19_Witness ==
    /\ AddRaised
    /\ a_fail_at = 5
    /\ NodesOf(a_doc_id, chroma) = {a_nodes[1], a_nodes[2]}

\* The construction has run; store is "keyword" or "kg".
LoadedOrEmptied(store, index, disk) ==
    IF disk_before[store].ok
    THEN index = disk_before[store].nodes /\ disk = disk_before[store]
    ELSE index = {} /\ disk = Stored({})

\* C20: after the construction, every store whose persisted state loads is
\* used as persisted and its persisted state is untouched, and every store
\* whose load fails, and only that one, is empty with the empty state
\* persisted.
C20_ConstructionDegradesPerStore ==
    (ix_pc = "ready" /\ a_pc = "idle" /\ d_pc = "idle") =>
        /\ LoadedOrEmptied("keyword", keyword_index, keyword_disk)
        /\ LoadedOrEmptied("kg", kg_index, kg_disk)

(***************************************************************************)
(* Properties of the knowledge-base tool.                                  *)
(***************************************************************************)
\* The pieces of a text that follow its piece "\nSources: ".
AfterSources(text) ==
    LET at == CHOOSE i \in 1..Len(text) : text[i] = "\nSources: "
    IN  SubSeq(text, at + 1, Len(text))

\* A comma-joined list without its separators (the pieces at odd places).
JoinedNames(pieces) == [k \in 1..((Len(pieces) + 1) \div 2) |-> pieces[2 * k - 1]]

\* C22: the text the knowledge-base tool returns for a search result is
\* never empty: it holds the answer, followed by the comma-joined source
\* names when there are sources and by "Not found in the knowledge base"
\* when there are none, whether the tool was entered through the
\* synchronous or the asynchronous path.
C22_ToolTextNeverEmpty ==
    kb_pc = "returned" =>
        LET text == Get(kb_output)
            rag_response == Get(kb_response)
        IN  /\ \E i \in 1..Len(text) : text[i] # ""
            /\ SubSeq(text, 1, 3) = <<"Answer: ", rag_response.answer, "\nSources: ">>
            /\ rag_response.sources = <<>> => AfterSources(text) = <<NOT_FOUND>>
            /\ rag_response.sources # <<>> =>
                  /\ Len(AfterSources(text)) = 2 * Len(rag_response.sources) - 1
                  /\ JoinedNames(AfterSources(text)) = rag_response.sources
                  /\ \A k \in 1..(Len(rag_response.sources) - 1) :
                        AfterSources(text)[2 * k] = ", "

\* The synchronous path returned the annotated text for a result without
\* sources.
C22_Witness ==
    /\ kb_pc = "returned"
    /\ kb_via = "_run"
    /\ Get(kb_response).sources = <<>>
    /\ Get(kb_response).answer = CANNED_ANSWER
    /\ Get(kb_output)[4] = NOT_FOUND

(***************************************************************************)
(* Properties of __process_messages.                                       *)
(***************************************************************************)
\* A returned list shows a tool message, a system message or a message
\* without content.
Exposes(result) == \E m \in Range(result) : m.role \in {"tool", "system"} \/ m.content = ""

\* C27: message processing exposes tool messages, system messages and
\* messages without content only when the caller asked for debug, the agent
\* was constructed with debug on and the environment is development or
\* test; in every other combination, so always in production and always for
\* get_response, the filtered user/assistant list is returned.
C27_DebugExposureGated ==
    pm_pc = "returned" =>
        LET allowed == pm_debug /\ _debug /\ ENVIRONMENT \in {"development", "test"}
        IN  /\ Exposes(Get(pm_result)) => allowed
            /\ ~allowed => Get(pm_result) = VisibleMessages(pm_messages)
            /\ allowed => Get(pm_result) = RoleContent(pm_messages)
            /\ pm_caller = "get_response" => ~Exposes(Get(pm_result))

\* In production, debug asked for by the caller and switched on in the
\* agent, a list with a tool message came back filtered.
C27_Witness ==
    /\ pm_pc = "returned"
    /\ pm_debug /\ _debug
    /\ ENVIRONMENT = "production"
    /\ \E m \in Range(pm_messages) : m.type = "tool"
    /\ Get(pm_result) # <<>>
    /\ ~Exposes(Get(pm_result))

(***************************************************************************)
(* Properties of add_document and delete_document on their failure paths.  *)
(***************************************************************************)
\* add_document was left by an exception of the chunker.
ChunkerRaised == a_pc \in {"FileNotFoundError", "ValueError"}

\* C25: the chunker fails with a not-found error when the path does not
\* exist and with a parse error when the loader yields no document, and
\* add_document then raises with no node inserted into any index and no
\* index persisted: the three indices and the persisted states are as they
\* were.
C25_ChunkerFailureTouchesNothing ==
    /\ a_pc # "idle" =>
          /\ ~a_file.exists => a_pc = "FileNotFoundError"
          /\ (a_file.exists /\ a_file.loaded = 0) => a_pc = "ValueError"
          /\ ChunkerRaised => ~(a_file.exists /\ a_file.loaded > 0)
    /\ ChunkerRaised =>
          /\ a_nodes = <<>>
          /\ chroma = a_before.vector
          /\ keyword_index = a_before.keyword
          /\ kg_index = a_before.kg
          /\ keyword_disk = a_before.keyword_disk
          /\ kg_disk = a_before.kg_disk

\* The loader found nothing in a file that exists, with a document indexed
\* before.
C25_Witness ==
    /\ a_pc = "ValueError"
    /\ a_file.exists
    /\ chroma # {}
    /\ kg_disk.ok /\ kg_disk.nodes # {}

\* C30: delete_document never raises; it returns True when the semantic
\* delete, the keyword delete and the keyword persist have all succeeded,
\* and False otherwise; when it returns False, the document's nodes are in
\* the semantic and in the keyword index as they were before the call.
C30_FailedDeleteLeavesIndices ==
    DeleteReturned =>
        /\ d_result \in BOOLEAN
        /\ d_result = TRUE =>
              /\ NodesOf(d_doc_id, chroma) = {}
              /\ NodesOf(d_doc_id, keyword_index) = {}
              /\ keyword_disk.ok /\ NodesOf(d_doc_id, keyword_disk.nodes) = {}
        /\ d_result = FALSE =>
              /\ NodesOf(d_doc_id, chroma) = NodesOf(d_doc_id, d_before.vector)
              /\ NodesOf(d_doc_id, keyword_index) = NodesOf(d_doc_id, d_before.keyword)

(***************************************************************************)
(* The documents API.                                                      *)
(***************************************************************************)
\* The doc ids under which an index holds nodes that an upload of this file
\* name and size put there.
CopiesOf(file_name, size, content) ==
    {call.index_id : call \in {c \in add_calls : /\ c.file_name = file_name
                                                  /\ c.size = size
                                                  /\ NodesOf(c.index_id, content) # {}}}

\* C21: an upload whose file name and size equal those of a row of the same
\* user adds no node to any index and no row, and returns that row's
\* descriptor; as long as no document is deleted, however many times a
\* tracked document was uploaded each index holds the nodes of one copy.
C21_UploadIdempotent ==
    /\ up_pc = "found" =>
          /\ chroma = up_before.vector
          /\ keyword_index = up_before.keyword
          /\ kg_index = up_before.kg
          /\ documents = up_before.documents
          /\ \E doc \in up_before.documents :
                /\ doc.user_id = Get(up_request).user_id
                /\ doc.filename = Get(up_request).file_name
                /\ doc.size = Get(up_request).size
                /\ Get(up_response).id = doc.id
                /\ Get(up_response).name = doc.filename
                /\ Get(up_response).size = doc.size
                /\ Get(up_response).extension = doc.extension
    /\ removed = {} =>
          \A doc \in documents :
              /\ Cardinality(CopiesOf(doc.filename, doc.size, chroma)) = 1
              /\ Cardinality(CopiesOf(doc.filename, doc.size, keyword_index)) = 1
              /\ Cardinality(CopiesOf(doc.filename, doc.size, kg_index)) = 1

\* C28: the doc id the delete endpoint passes to RagInterface.delete_document
\* is the one add_document returned when the row was created, and a delete
\* that returns True leaves no node of it in the semantic and the keyword
\* index.
C28_DeletePassesUploadIndexId ==
    (del_pc = "rag" /\ del_record # Nothing) =>
        LET index_id == upload_index_id[Get(del_record).id]
        IN  /\ d_doc_id = index_id
            /\ (d_pc = "returned" /\ d_result = TRUE) =>
                  /\ NodesOf(index_id, chroma) = {}
                  /\ NodesOf(index_id, keyword_index) = {}

====
